---- MODULE Spec2Model ----
(***************************************************************************)
(* TravelPlanner: the relational store declared in common/models.py        *)
(* (Country, City, Sightseeing, Hotel, Room, Airport, Flight, Plan,        *)
(* FlightPlan, SightseeingPlan and the Plan.rooms link table) and the      *)
(* derived properties computed over it.                                    *)
(*                                                                         *)
(* A table is the set of its rows; a row is a record of the columns that   *)
(* some derived property or constraint reads.  FlightPlan and              *)
(* SightseeingPlan rows carry no column that identifies them apart from    *)
(* (flight, plan, order), so these two tables are bags of rows: a          *)
(* duplicate insert is representable and it is the uniqueness check of     *)
(* the insert that keeps every count at 1.                                 *)
(*                                                                         *)
(* Time: a DateTimeField is a whole number of hours since an epoch, a      *)
(* DateField a whole number of days.  A FloatField cost is an integer; a   *)
(* float that a division produces (Room.cost_per_day,                      *)
(* Flight.duration_in_hours) is a whole number of units of 1/FloatScale.   *)
(* A property is read on an instance loaded from the store for the read.   *)
(* Columns no property or constraint reads (Sightseeing.name, description, *)
(* rating, Hotel.name, rating, Room.room_type) are left out of the rows.   *)
(***************************************************************************)
EXTENDS Integers, FiniteSets, Sequences, Bags, TLC

VARIABLES country, city, sightseeing, hotel, room, airport, flight, plan,
          flightplan, sightseeingplan, plan_rooms, result

geo    == <<country, city, airport>>
lodge  == <<sightseeing, hotel, room>>
links  == <<flightplan, sightseeingplan, plan_rooms>>
store  == <<country, city, sightseeing, hotel, room, airport, flight, plan,
            flightplan, sightseeingplan, plan_rooms>>
vars   == <<country, city, sightseeing, hotel, room, airport, flight, plan,
            flightplan, sightseeingplan, plan_rooms, result>>

(***************************************************************************)
(* Bounds of the input domains.                                            *)
(***************************************************************************)
MaxCost    == 1
MaxDay     == 1
MaxOrder   == 2
MaxVersion == 2
\* A float is a whole number of units of 1/FloatScale; a division rounds to
\* the nearest unit, ties to even.
FloatScale == 1024

HoursPerDay    == 24
SecondsPerHour == 3600
SecondsPerDay  == 86400

Costs       == 0..MaxCost
HoursOfDay  == {10, 14}
DateTimes   == {d * HoursPerDay + h : d \in 0..MaxDay, h \in HoursOfDay}
Orders      == 1..MaxOrder
Dates       == 0..(MaxDay + 2)
RoomCosts   == Costs \cup {100}
Versions    == 1..MaxVersion

CountryNames == {"Country1", "Country2", "Country3"}
CityNames    == {"City1", "City2"}
AirportNames == {"Airport1", "Airport2", "Airport3"}
FlightNames  == {"Flight1", "Flight2"}
PlanNames    == {"Plan1", "Plan2"}
HotelIds     == {1, 2}
RoomIds      == {1, 2}

(***************************************************************************)
(* Helpers: bags and sums.                                                 *)
(***************************************************************************)
\* The bag B restricted to the rows in S.
BagRestrict(B, S) == [r \in (DOMAIN B) \cap S |-> B[r]]

BagRemoveOne(B, r) == B (-) SetToBag({r})

RECURSIVE SumFn(_)
SumFn(f) ==
    IF DOMAIN f = {} THEN 0
    ELSE LET x == CHOOSE x \in DOMAIN f : TRUE
         IN  f[x] + SumFn([y \in (DOMAIN f) \ {x} |-> f[y]])

RECURSIVE SumSeq(_)
SumSeq(s) == IF s = <<>> THEN 0 ELSE Head(s) + SumSeq(Tail(s))

\* a / b on floats whose quotient is kept in units of 1/FloatScale: the
\* nearest unit to a * FloatScale / b, ties to the even unit.  b # 0.
RoundDiv(a, b) ==
    LET n == IF b < 0 THEN -(a * FloatScale) ELSE a * FloatScale
        m == IF b < 0 THEN -b ELSE b
        q == n \div m
        r == n % m
    IN  IF 2 * r < m THEN q
        ELSE IF 2 * r > m THEN q + 1
        ELSE IF q % 2 = 0 THEN q ELSE q + 1

FloorDiv(a, b) == a \div b

(***************************************************************************)
(* Row lookups: following a foreign key to the row it names.               *)
(***************************************************************************)
AirportRow(n)     == CHOOSE a \in airport : a.name = n
FlightRow(n)      == CHOOSE f \in flight : f.name = n
CityRow(n)        == CHOOSE c \in city : c.name = n
SightseeingRow(i) == CHOOSE s \in sightseeing : s.id = i
HotelRow(i)       == CHOOSE h \in hotel : h.id = i
RoomRow(i)        == CHOOSE r \in room : r.id = i

Names(T) == {r.name : r \in T}
Ids(T)   == {r.id : r \in T}
(***************************************************************************)
(* Outcome of evaluating a property or of a write: a returned value or a   *)
(* raised exception.                                                       *)
(***************************************************************************)
\* The record of an operation: which one, on what, and how it ended.
Outcome(op, arg, out) ==
    [op |-> op, arg |-> arg, status |-> out.status, value |-> out.value]
Return(v)     == [status |-> "ok", value |-> v]
Raise(e, msg) == [status |-> e, value |-> msg]
None          == [name |-> "None"]

(***************************************************************************)
(* Query helpers.  Plan.objects.filter(<condition on flightplan>) joins    *)
(* plan with flightplan: a Plan row is produced once per FlightPlan row    *)
(* of the plan that satisfies the condition; distinct() keeps one copy.    *)
(***************************************************************************)
FilterPlansByFlightPlan(rows) ==
    LET n(pl) == BagCardinality(
                    BagRestrict(flightplan, {r \in rows : r.plan = pl.name}))
    IN  [pl \in {q \in plan : n(q) > 0} |-> n(pl)]

Distinct(B) == SetToBag(BagToSet(B))

(***************************************************************************)
(* Derived properties of Country, Airport and Flight.                      *)
(***************************************************************************)
\* Mutant of Country_plans: distinct() left out.
Country_plans_not_distinct(c) ==
    FilterPlansByFlightPlan(
        {r \in BagToSet(flightplan) :
            \/ AirportRow(FlightRow(r.flight).departure).country = c
            \/ AirportRow(FlightRow(r.flight).arrival).country = c})

\* Mutant of Country_plans: only the arrival side of the Q is matched.
Country_plans_arrival_only(c) ==
    Distinct(FilterPlansByFlightPlan(
        {r \in BagToSet(flightplan) :
            AirportRow(FlightRow(r.flight).arrival).country = c}))

Country_plans(c) ==
    Distinct(FilterPlansByFlightPlan(
        {r \in BagToSet(flightplan) :
            \/ AirportRow(FlightRow(r.flight).departure).country = c
            \/ AirportRow(FlightRow(r.flight).arrival).country = c}))

\* Mutant of Airport_plans: matched by the airport's country.
Airport_plans_by_country(a) ==
    Country_plans(AirportRow(a).country)

Airport_plans(a) ==
    Distinct(FilterPlansByFlightPlan(
        {r \in BagToSet(flightplan) :
            \/ FlightRow(r.flight).departure = a
            \/ FlightRow(r.flight).arrival = a}))

\* Mutant of Flight_plans: the join is not restricted to the flight.
Flight_plans_of_any_flight(f) ==
    FilterPlansByFlightPlan(BagToSet(flightplan))

\* Plan.objects.filter(flightplan__flight=self): one Plan per FlightPlan row.
Flight_plans(f) ==
    FilterPlansByFlightPlan({r \in BagToSet(flightplan) : r.flight = f})

\* Mutant of Flight_duration_in_hours: the whole difference is converted.
Flight_duration_in_hours_total(f) ==
    RoundDiv((FlightRow(f).arrival_date_time - FlightRow(f).departure_date_time)
                * SecondsPerHour, SecondsPerHour)

\* (arrival_date_time - departure_date_time).seconds / 3600: a timedelta is
\* normalised to days and 0 <= seconds < 86400, and only seconds is read.
Flight_duration_in_hours(f) ==
    LET delta   == (FlightRow(f).arrival_date_time
                    - FlightRow(f).departure_date_time) * SecondsPerHour
        seconds == delta % SecondsPerDay
    IN  RoundDiv(seconds, SecondsPerHour)

(***************************************************************************)
(* Derived properties of City's dependants: Country.cities,                *)
(* Sightseeing.country, Hotel.country, Hotel.rooms and the Room            *)
(* properties.  i is the id of the row.                                    *)
(***************************************************************************)
Country_cities(c) == {x \in city : x.country = c}

\* Mutant of Sightseeing_country: the country the sightseeing had when the
\* fixture stored it is kept and returned.
Sightseeing_country_at_creation(i) ==
    IF i = 1 THEN "Country1" ELSE "Country2"

\* self.city.country
Sightseeing_country(i) == CityRow(SightseeingRow(i).city).country

\* self.city.country
Hotel_country(i) == CityRow(HotelRow(i).city).country

\* Mutant of Hotel_rooms: the rooms of every hotel.
Hotel_rooms_of_any_hotel(i) == room

\* Room.objects.filter(hotel=self)
Hotel_rooms(i) == {r \in room : r.hotel = i}

\* Mutant of Room_duration_in_days: a reversed range counts as empty.
Room_duration_in_days_clamped(i) ==
    IF RoomRow(i).to_date < RoomRow(i).from_date THEN 0
    ELSE RoomRow(i).to_date - RoomRow(i).from_date

\* (to_date - from_date).days
Room_duration_in_days(i) == RoomRow(i).to_date - RoomRow(i).from_date

\* Mutants of Room_cost_per_day: an empty date range gives 0; the division
\* is the floor division.
Room_cost_per_day_defaulted(i) ==
    IF Room_duration_in_days(i) = 0 THEN Return(0)
    ELSE Return(RoundDiv(RoomRow(i).cost, Room_duration_in_days(i)))

Room_cost_per_day_floor(i) ==
    IF Room_duration_in_days(i) = 0
    THEN Raise("ZeroDivisionError", "division by zero")
    ELSE Return(RoundDiv(
            IF Room_duration_in_days(i) < 0
            THEN (-RoomRow(i).cost) \div (-Room_duration_in_days(i))
            ELSE RoomRow(i).cost \div Room_duration_in_days(i), 1))

\* self.cost / self.duration_in_days
Room_cost_per_day(i) ==
    IF Room_duration_in_days(i) = 0
    THEN Raise("ZeroDivisionError", "division by zero")
    ELSE Return(RoundDiv(RoomRow(i).cost, Room_duration_in_days(i)))

\* [self.flight.departure.country, self.flight.arrival.country]
FlightPlan_countries(r) ==
    <<AirportRow(FlightRow(r.flight).departure).country,
      AirportRow(FlightRow(r.flight).arrival).country>>

(***************************************************************************)
(* Derived properties of Plan.  p is the primary key of the Plan.          *)
(***************************************************************************)
\* Mutant of Plan_countries: the arrival country is not added.
Plan_countries_departure_only(p) ==
    {AirportRow(FlightRow(r.flight).departure).country :
        r \in {x \in BagToSet(flightplan) : x.plan = p}}

Plan_countries(p) ==
    LET flight_plans == {x \in BagToSet(flightplan) : x.plan = p}
    IN  {AirportRow(FlightRow(r.flight).departure).country : r \in flight_plans}
        \cup {AirportRow(FlightRow(r.flight).arrival).country : r \in flight_plans}

\* Mutant of Plan_planes: the join is not restricted to the plan's own rows.
Plan_planes_of_any_plan(p) ==
    LET n(f) == BagCardinality(
                   BagRestrict(flightplan,
                       {r \in BagToSet(flightplan) : r.flight = f.name}))
    IN  [f \in {g \in flight : n(g) > 0} |-> n(f)]

\* Flight.objects.filter(flightplan__plan=self): one Flight per FlightPlan row.
Plan_planes(p) ==
    LET n(f) == BagCardinality(
                   BagRestrict(flightplan,
                       {r \in BagToSet(flightplan) : r.plan = p /\ r.flight = f.name}))
    IN  [f \in {g \in flight : n(g) > 0} |-> n(f)]

\* SightseeingPlan.objects.filter(plan=self) in Meta.ordering: ascending order.
RECURSIVE OrderedRows(_)
OrderedRows(B) ==
    IF DOMAIN B = {} THEN <<>>
    ELSE LET r == CHOOSE x \in DOMAIN B : \A y \in DOMAIN B : x.order <= y.order
         IN  <<r>> \o OrderedRows(BagRemoveOne(B, r))

\* Mutant of OrderedListings: the rows come by sightseeing id.
OrderedListings_by_id(B) ==
    {l \in [1..BagCardinality(B) -> DOMAIN B] :
        /\ \A r \in DOMAIN B : Cardinality({i \in DOMAIN l : l[i] = r}) = B[r]
        /\ \A i \in DOMAIN l, j \in DOMAIN l :
              i < j => l[i].sightseeing <= l[j].sightseeing}

\* Every listing the database may give for a queryset in Meta.ordering: each
\* row once, ascending by order; rows of equal order come in any sequence.
OrderedListings(B) ==
    {l \in [1..BagCardinality(B) -> DOMAIN B] :
        /\ \A r \in DOMAIN B : Cardinality({i \in DOMAIN l : l[i] = r}) = B[r]
        /\ \A i \in DOMAIN l, j \in DOMAIN l : i < j => l[i].order <= l[j].order}

\* The lists Plan.sightseeings may return, one for each listing of the rows.
Plan_sightseeings_lists(p) ==
    {[i \in DOMAIN l |-> SightseeingRow(l[i].sightseeing)] :
        l \in OrderedListings(BagRestrict(sightseeingplan,
                {r \in BagToSet(sightseeingplan) : r.plan = p}))}

\* One of Plan_sightseeings_lists, for the properties that sum over it.
Plan_sightseeings(p) ==
    LET sightseeing_plans ==
            OrderedRows(BagRestrict(sightseeingplan,
                {r \in BagToSet(sightseeingplan) : r.plan = p}))
    IN  [i \in 1..Len(sightseeing_plans) |->
            SightseeingRow(sightseeing_plans[i].sightseeing)]

\* self.rooms.all(): the Rooms linked to the plan through plan_rooms.
Plan_rooms_all(p) == {RoomRow(l.room) : l \in {x \in plan_rooms : x.plan = p}}

\* Mutant of Plan_cost: the total of the previous evaluation is kept and
\* added to instead of starting from 0.
Plan_cost_accumulating(p) ==
    LET planes       == Plan_planes(p)
        sightseeings == Plan_sightseeings(p)
    IN  (IF result.op = "Plan.cost" /\ result.status = "ok" /\ result.arg = <<p>>
         THEN result.value ELSE 0)
        + SumFn([r \in Plan_rooms_all(p) |-> r.cost])
        + SumSeq([i \in 1..Len(sightseeings) |-> sightseeings[i].cost])
        + SumFn([f \in DOMAIN planes |-> planes[f] * f.cost])

Plan_cost(p) ==
    LET planes       == Plan_planes(p)
        sightseeings == Plan_sightseeings(p)
    IN  SumFn([r \in Plan_rooms_all(p) |-> r.cost])
        + SumSeq([i \in 1..Len(sightseeings) |-> sightseeings[i].cost])
        + SumFn([f \in DOMAIN planes |-> planes[f] * f.cost])

\* queryset.order_by(key).last() / .first(): None on an empty queryset.
\* Mutant of LastByArrival: the last of the departure ordering.
LastByArrival_by_departure(B) ==
    IF DOMAIN B = {} THEN None
    ELSE CHOOSE f \in DOMAIN B :
            \A g \in DOMAIN B : g.departure_date_time <= f.departure_date_time

LastByArrival(B) ==
    IF DOMAIN B = {} THEN None
    ELSE CHOOSE f \in DOMAIN B :
            \A g \in DOMAIN B : g.arrival_date_time <= f.arrival_date_time

FirstByDeparture(B) ==
    IF DOMAIN B = {} THEN None
    ELSE CHOOSE f \in DOMAIN B :
            \A g \in DOMAIN B : f.departure_date_time <= g.departure_date_time

\* Mutants of Plan_duration_in_days: both ends taken from the arrival
\* ordering; the emptiness check left out (None leaks into the subtraction).
Plan_duration_in_days_one_ordering(p) ==
    LET last_plane  == LastByArrival(Plan_planes(p))
        first_plane == IF Plan_planes(p) = EmptyBag THEN None
                       ELSE CHOOSE f \in DOMAIN Plan_planes(p) :
                               \A g \in DOMAIN Plan_planes(p) :
                                   f.arrival_date_time <= g.arrival_date_time
    IN  IF last_plane = None \/ first_plane = None
        THEN Raise("ValueError", "No planes in the plan")
        ELSE Return(FloorDiv(last_plane.arrival_date_time
                             - first_plane.departure_date_time, HoursPerDay))

Plan_duration_in_days_unchecked(p) ==
    LET last_plane  == LastByArrival(Plan_planes(p))
        first_plane == FirstByDeparture(Plan_planes(p))
    IN  IF last_plane = None \/ first_plane = None
        THEN Raise("AttributeError", "'NoneType' object has no attribute")
        ELSE Return(FloorDiv(last_plane.arrival_date_time
                             - first_plane.departure_date_time, HoursPerDay))

Plan_duration_in_days(p) ==
    LET last_plane  == LastByArrival(Plan_planes(p))
        first_plane == FirstByDeparture(Plan_planes(p))
    IN  IF last_plane = None \/ first_plane = None
        THEN Raise("ValueError", "No planes in the plan")
        ELSE Return(FloorDiv(last_plane.arrival_date_time
                             - first_plane.departure_date_time, HoursPerDay))
(***************************************************************************)
(* Writes.  Model.objects.create(...) inserts one row or raises            *)
(* IntegrityError (primary key, unique_together, foreign key) and stores   *)
(* nothing; result records the outcome of the last operation.              *)
(***************************************************************************)
Ok        == Return("None")
Integrity == Raise("IntegrityError", "constraint failed")

\* Flight.objects.create(name=n, departure=dep, arrival=arr, cost=c, ...)
CreateFlight(n, dep, arr, c, ddt, adt) ==
    IF n \in Names(flight) \/ dep \notin Names(airport) \/ arr \notin Names(airport)
    THEN /\ result' = Outcome("Flight.create", <<n>>, Integrity)
         /\ UNCHANGED store
    ELSE /\ flight' = flight \cup
                {[name |-> n, departure |-> dep, arrival |-> arr, cost |-> c,
                  departure_date_time |-> ddt, arrival_date_time |-> adt]}
         /\ result' = Outcome("Flight.create", <<n>>, Ok)
         /\ UNCHANGED <<geo, lodge, plan, links>>

\* Room.objects.create(hotel=h, from_date=fd, to_date=td, cost=c): i is the
\* id the database assigns, one that no stored room has.
RoomInsertAllowed(h, fd, td, c) == h \in Ids(hotel)

CreateRoom(i, h, fd, td, c) ==
    /\ i \notin Ids(room)
    /\ IF RoomInsertAllowed(h, fd, td, c)
       THEN /\ room' = room \cup {[id |-> i, hotel |-> h, from_date |-> fd,
                                   to_date |-> td, cost |-> c]}
            /\ result' = Outcome("Room.create", <<i>>, Ok)
            /\ UNCHANGED <<geo, sightseeing, hotel, flight, plan, links>>
       ELSE /\ result' = Outcome("Room.create", <<i>>, Integrity)
            /\ UNCHANGED store

\* Plan.objects.create(name=n, version=v): name is the primary key and
\* (name, version) is unique together.
PlanInsertAllowed(n, v) ==
    /\ n \notin Names(plan)
    /\ [name |-> n, version |-> v] \notin plan

CreatePlan(n, v) ==
    IF PlanInsertAllowed(n, v)
    THEN /\ plan' = plan \cup {[name |-> n, version |-> v]}
         /\ result' = Outcome("Plan.create", <<n, v>>, Ok)
         /\ UNCHANGED <<geo, lodge, flight, links>>
    ELSE /\ result' = Outcome("Plan.create", <<n, v>>, Integrity)
         /\ UNCHANGED store

\* Mutant of FlightPlanInsertAllowed: unique_together over (flight, plan, order).
FlightPlanInsertAllowed_with_order(f, p, o) ==
    /\ f \in Names(flight)
    /\ p \in Names(plan)
    /\ \A r \in BagToSet(flightplan) : ~(r.flight = f /\ r.plan = p /\ r.order = o)

\* FlightPlan.objects.create(flight=f, plan=p, order=o)
FlightPlanInsertAllowed(f, p, o) ==
    /\ f \in Names(flight)
    /\ p \in Names(plan)
    /\ \A r \in BagToSet(flightplan) : ~(r.flight = f /\ r.plan = p)

CreateFlightPlan(f, p, o) ==
    IF FlightPlanInsertAllowed(f, p, o)
    THEN /\ flightplan' = flightplan (+)
                SetToBag({[flight |-> f, plan |-> p, order |-> o]})
         /\ result' = Outcome("FlightPlan.create", <<f, p>>, Ok)
         /\ UNCHANGED <<geo, lodge, flight, plan, sightseeingplan, plan_rooms>>
    ELSE /\ result' = Outcome("FlightPlan.create", <<f, p>>, Integrity)
         /\ UNCHANGED store

\* SightseeingPlan.objects.create(sightseeing=s, plan=p, order=o)
SightseeingPlanInsertAllowed(s, p, o) ==
    /\ s \in Ids(sightseeing)
    /\ p \in Names(plan)
    /\ \A r \in BagToSet(sightseeingplan) : ~(r.sightseeing = s /\ r.plan = p)

CreateSightseeingPlan(s, p, o) ==
    IF SightseeingPlanInsertAllowed(s, p, o)
    THEN /\ sightseeingplan' = sightseeingplan (+)
                SetToBag({[sightseeing |-> s, plan |-> p, order |-> o]})
         /\ result' = Outcome("SightseeingPlan.create", <<s, p>>, Ok)
         /\ UNCHANGED <<geo, lodge, flight, plan, flightplan, plan_rooms>>
    ELSE /\ result' = Outcome("SightseeingPlan.create", <<s, p>>, Integrity)
         /\ UNCHANGED store

\* Country.objects.create(name=n): name is the primary key.
CreateCountry(n) ==
    IF n \notin country
    THEN /\ country' = country \cup {n}
         /\ result' = Outcome("Country.create", <<n>>, Ok)
         /\ UNCHANGED <<city, airport, lodge, flight, plan, links>>
    ELSE /\ result' = Outcome("Country.create", <<n>>, Integrity)
         /\ UNCHANGED store

\* City.objects.create(name=n, country=c): name is the primary key.
CreateCity(n, c) ==
    IF n \notin Names(city) /\ c \in country
    THEN /\ city' = city \cup {[name |-> n, country |-> c]}
         /\ result' = Outcome("City.create", <<n>>, Ok)
         /\ UNCHANGED <<country, airport, lodge, flight, plan, links>>
    ELSE /\ result' = Outcome("City.create", <<n>>, Integrity)
         /\ UNCHANGED store

\* Airport.objects.create(name=n, country=c): name is the primary key.
CreateAirport(n, c) ==
    IF n \notin Names(airport) /\ c \in country
    THEN /\ airport' = airport \cup {[name |-> n, country |-> c]}
         /\ result' = Outcome("Airport.create", <<n>>, Ok)
         /\ UNCHANGED <<country, city, lodge, flight, plan, links>>
    ELSE /\ result' = Outcome("Airport.create", <<n>>, Integrity)
         /\ UNCHANGED store

\* Hotel.objects.create(city=c, ...): i is the id the database assigns.
CreateHotel(i, c) ==
    /\ i \notin Ids(hotel)
    /\ IF c \in Names(city)
       THEN /\ hotel' = hotel \cup {[id |-> i, city |-> c]}
            /\ result' = Outcome("Hotel.create", <<i>>, Ok)
            /\ UNCHANGED <<geo, sightseeing, room, flight, plan, links>>
       ELSE /\ result' = Outcome("Hotel.create", <<i>>, Integrity)
            /\ UNCHANGED store

\* Sightseeing.objects.create(city=c, cost=k, ...): i is the id the database
\* assigns.
CreateSightseeing(i, c, k) ==
    /\ i \notin Ids(sightseeing)
    /\ IF c \in Names(city)
       THEN /\ sightseeing' = sightseeing \cup {[id |-> i, city |-> c, cost |-> k]}
            /\ result' = Outcome("Sightseeing.create", <<i>>, Ok)
            /\ UNCHANGED <<geo, hotel, room, flight, plan, links>>
       ELSE /\ result' = Outcome("Sightseeing.create", <<i>>, Integrity)
            /\ UNCHANGED store

\* sightseeing.city = c; sightseeing.save()
SaveSightseeingCity(i, c) ==
    /\ i \in Ids(sightseeing)
    /\ IF c \in Names(city)
       THEN /\ sightseeing' = (sightseeing \ {SightseeingRow(i)})
                                \cup {[SightseeingRow(i) EXCEPT !.city = c]}
            /\ result' = Outcome("Sightseeing.save", <<i>>, Ok)
            /\ UNCHANGED <<geo, hotel, room, flight, plan, links>>
       ELSE /\ result' = Outcome("Sightseeing.save", <<i>>, Integrity)
            /\ UNCHANGED store

\* hotel.city = c; hotel.save()
SaveHotelCity(i, c) ==
    /\ i \in Ids(hotel)
    /\ IF c \in Names(city)
       THEN /\ hotel' = (hotel \ {HotelRow(i)}) \cup {[HotelRow(i) EXCEPT !.city = c]}
            /\ result' = Outcome("Hotel.save", <<i>>, Ok)
            /\ UNCHANGED <<geo, sightseeing, room, flight, plan, links>>
       ELSE /\ result' = Outcome("Hotel.save", <<i>>, Integrity)
            /\ UNCHANGED store

\* city.country = c; city.save()
SaveCityCountry(n, c) ==
    /\ n \in Names(city)
    /\ IF c \in country
       THEN /\ city' = (city \ {CityRow(n)}) \cup {[CityRow(n) EXCEPT !.country = c]}
            /\ result' = Outcome("City.save", <<n>>, Ok)
            /\ UNCHANGED <<country, airport, lodge, flight, plan, links>>
       ELSE /\ result' = Outcome("City.save", <<n>>, Integrity)
            /\ UNCHANGED store

\* plan.rooms.add(room): a link that exists is not inserted again.
PlanRoomsAdd(p, r) ==
    /\ p \in Names(plan)
    /\ r \in Ids(room)
    /\ plan_rooms' = plan_rooms \cup {[plan |-> p, room |-> r]}
    /\ result' = Outcome("Plan.rooms.add", <<p, r>>, Ok)
    /\ UNCHANGED <<geo, lodge, flight, plan, flightplan, sightseeingplan>>

\* plan.rooms.remove(room)
PlanRoomsRemove(p, r) ==
    /\ p \in Names(plan)
    /\ r \in Ids(room)
    /\ plan_rooms' = plan_rooms \ {[plan |-> p, room |-> r]}
    /\ result' = Outcome("Plan.rooms.remove", <<p, r>>, Ok)
    /\ UNCHANGED <<geo, lodge, flight, plan, flightplan, sightseeingplan>>

(***************************************************************************)
(* Deletion.  instance.delete() removes the instance and, through every    *)
(* ForeignKey declared on_delete=CASCADE, the rows that refer to a removed *)
(* row, transitively; the rows of the Plan.rooms link table go with their  *)
(* Plan or their Room.                                                     *)
(***************************************************************************)
CascadeCity(dCountry)     == {c.name : c \in {x \in city : x.country \in dCountry}}
\* Mutant of CascadeAirport: Airport.country does not cascade.
CascadeAirport_none(dCountry) == {}
CascadeAirport(dCountry)  == {a.name : a \in {x \in airport : x.country \in dCountry}}
CascadeSightseeing(dCity) == {s.id : s \in {x \in sightseeing : x.city \in dCity}}
\* Mutant of CascadeHotel: Hotel.city does not cascade.
CascadeHotel_none(dCity)  == {}
CascadeHotel(dCity)       == {h.id : h \in {x \in hotel : x.city \in dCity}}
\* Mutant of CascadeRoom: Room.hotel does not cascade.
CascadeRoom_none(dHotel)  == {}
CascadeRoom(dHotel)       == {r.id : r \in {x \in room : x.hotel \in dHotel}}
\* Mutant of CascadeFlight: Flight.arrival does not cascade.
CascadeFlight_departure_only(dAirport) ==
    {f.name : f \in {x \in flight : x.departure \in dAirport}}
CascadeFlight(dAirport)   ==
    {f.name : f \in {x \in flight : x.departure \in dAirport \/ x.arrival \in dAirport}}
\* Mutant of KeepFlightPlan: FlightPlan.plan does not cascade.
KeepFlightPlan_flight_only(r, dFlight, dPlan) == r.flight \notin dFlight
KeepFlightPlan(r, dFlight, dPlan)           == r.flight \notin dFlight /\ r.plan \notin dPlan
KeepSightseeingPlan(r, dSightseeing, dPlan) == r.sightseeing \notin dSightseeing /\ r.plan \notin dPlan
KeepPlanRoom(l, dRoom, dPlan)               == l.room \notin dRoom /\ l.plan \notin dPlan

NoRoots == [country |-> {}, city |-> {}, sightseeing |-> {}, hotel |-> {},
            room |-> {}, airport |-> {}, flight |-> {}, plan |-> {}]

Delete(roots) ==
    LET dCountry     == roots.country
        dCity        == roots.city \cup CascadeCity(dCountry)
        dAirport     == roots.airport \cup CascadeAirport(dCountry)
        dSightseeing == roots.sightseeing \cup CascadeSightseeing(dCity)
        dHotel       == roots.hotel \cup CascadeHotel(dCity)
        dRoom        == roots.room \cup CascadeRoom(dHotel)
        dFlight      == roots.flight \cup CascadeFlight(dAirport)
        dPlan        == roots.plan
    IN  /\ country' = country \ dCountry
        /\ city' = {c \in city : c.name \notin dCity}
        /\ airport' = {a \in airport : a.name \notin dAirport}
        /\ sightseeing' = {s \in sightseeing : s.id \notin dSightseeing}
        /\ hotel' = {h \in hotel : h.id \notin dHotel}
        /\ room' = {r \in room : r.id \notin dRoom}
        /\ flight' = {f \in flight : f.name \notin dFlight}
        /\ plan' = {p \in plan : p.name \notin dPlan}
        /\ flightplan' = BagRestrict(flightplan,
                {r \in BagToSet(flightplan) : KeepFlightPlan(r, dFlight, dPlan)})
        /\ sightseeingplan' = BagRestrict(sightseeingplan,
                {r \in BagToSet(sightseeingplan) :
                    KeepSightseeingPlan(r, dSightseeing, dPlan)})
        /\ plan_rooms' = {l \in plan_rooms : KeepPlanRoom(l, dRoom, dPlan)}

DeleteCountry(n) ==
    /\ n \in country
    /\ Delete([NoRoots EXCEPT !.country = {n}])
    /\ result' = Outcome("Country.delete", <<n>>, Ok)

DeleteCity(n) ==
    /\ n \in Names(city)
    /\ Delete([NoRoots EXCEPT !.city = {n}])
    /\ result' = Outcome("City.delete", <<n>>, Ok)

DeleteSightseeing(i) ==
    /\ i \in Ids(sightseeing)
    /\ Delete([NoRoots EXCEPT !.sightseeing = {i}])
    /\ result' = Outcome("Sightseeing.delete", <<i>>, Ok)

DeleteHotel(i) ==
    /\ i \in Ids(hotel)
    /\ Delete([NoRoots EXCEPT !.hotel = {i}])
    /\ result' = Outcome("Hotel.delete", <<i>>, Ok)

DeleteRoom(i) ==
    /\ i \in Ids(room)
    /\ Delete([NoRoots EXCEPT !.room = {i}])
    /\ result' = Outcome("Room.delete", <<i>>, Ok)

DeleteAirport(n) ==
    /\ n \in Names(airport)
    /\ Delete([NoRoots EXCEPT !.airport = {n}])
    /\ result' = Outcome("Airport.delete", <<n>>, Ok)

DeleteFlight(n) ==
    /\ n \in Names(flight)
    /\ Delete([NoRoots EXCEPT !.flight = {n}])
    /\ result' = Outcome("Flight.delete", <<n>>, Ok)

DeletePlan(n) ==
    /\ n \in Names(plan)
    /\ Delete([NoRoots EXCEPT !.plan = {n}])
    /\ result' = Outcome("Plan.delete", <<n>>, Ok)

\* flight_plan.delete() on one stored FlightPlan row
DeleteFlightPlan(r) ==
    /\ BagIn(r, flightplan)
    /\ flightplan' = BagRemoveOne(flightplan, r)
    /\ result' = Outcome("FlightPlan.delete", <<r.flight, r.plan>>, Ok)
    /\ UNCHANGED <<geo, lodge, flight, plan, sightseeingplan, plan_rooms>>

\* sightseeing_plan.delete() on one stored SightseeingPlan row
DeleteSightseeingPlan(r) ==
    /\ BagIn(r, sightseeingplan)
    /\ sightseeingplan' = BagRemoveOne(sightseeingplan, r)
    /\ result' = Outcome("SightseeingPlan.delete", <<r.sightseeing, r.plan>>, Ok)
    /\ UNCHANGED <<geo, lodge, flight, plan, flightplan, plan_rooms>>

(***************************************************************************)
(* Reads: evaluating a derived property changes no table.                  *)
(***************************************************************************)
EvalPlanDurationInDays(p) ==
    /\ p \in Names(plan)
    /\ result' = Outcome("Plan.duration_in_days", <<p>>, Plan_duration_in_days(p))
    /\ UNCHANGED store

EvalPlanSightseeings(p) ==
    /\ p \in Names(plan)
    /\ \E l \in Plan_sightseeings_lists(p) :
          result' = Outcome("Plan.sightseeings", <<p>>, Return(l))
    /\ UNCHANGED store

EvalFlightDurationInHours(f) ==
    /\ f \in Names(flight)
    /\ result' = Outcome("Flight.duration_in_hours", <<f>>,
                         Return(Flight_duration_in_hours(f)))
    /\ UNCHANGED store

EvalRoomDurationInDays(i) ==
    /\ i \in Ids(room)
    /\ result' = Outcome("Room.duration_in_days", <<i>>,
                         Return(Room_duration_in_days(i)))
    /\ UNCHANGED store

EvalRoomCostPerDay(i) ==
    /\ i \in Ids(room)
    /\ result' = Outcome("Room.cost_per_day", <<i>>, Room_cost_per_day(i))
    /\ UNCHANGED store

(***************************************************************************)
(* Reading any derived property of any stored instance.  A ForeignKey      *)
(* attribute (hotel.city, city.country, flight_plan.flight, ...) loads the *)
(* row it refers to and raises DoesNotExist when that row is not stored;   *)
(* a filter() only selects and raises nothing.                             *)
(***************************************************************************)
DoesNotExist == Raise("DoesNotExist", "matching query does not exist")

\* city.country can be followed from the city named n.
CityLoads(n) == n \in Names(city) /\ CityRow(n).country \in country

\* airport.country can be followed from the airport named n.
AirportLoads(n) == n \in Names(airport) /\ AirportRow(n).country \in country

\* flight.departure.country and flight.arrival.country can be followed.
FlightLoads(f) ==
    /\ f \in Names(flight)
    /\ AirportLoads(FlightRow(f).departure)
    /\ AirportLoads(FlightRow(f).arrival)

ReadOps ==
    {"Country.plans", "Country.cities", "Airport.plans", "Hotel.rooms",
     "Hotel.country", "Sightseeing.country", "Room.duration_in_days",
     "Room.cost_per_day", "Flight.plans", "Flight.duration_in_hours",
     "Plan.countries", "Plan.planes", "Plan.sightseeings", "Plan.cost",
     "Plan.duration_in_days", "FlightPlan.countries"}

\* The stored instances a property can be read on, as argument tuples.
Instances(op) ==
    CASE op \in {"Country.plans", "Country.cities"} -> {<<c>> : c \in country}
      [] op = "Airport.plans" -> {<<a>> : a \in Names(airport)}
      [] op \in {"Hotel.rooms", "Hotel.country"} -> {<<i>> : i \in Ids(hotel)}
      [] op = "Sightseeing.country" -> {<<i>> : i \in Ids(sightseeing)}
      [] op \in {"Room.duration_in_days", "Room.cost_per_day"} ->
            {<<i>> : i \in Ids(room)}
      [] op \in {"Flight.plans", "Flight.duration_in_hours"} ->
            {<<f>> : f \in Names(flight)}
      [] op \in {"Plan.countries", "Plan.planes", "Plan.sightseeings",
                 "Plan.cost", "Plan.duration_in_days"} ->
            {<<p>> : p \in Names(plan)}
      [] op = "FlightPlan.countries" ->
            {<<r.flight, r.plan>> : r \in BagToSet(flightplan)}

Evaluate(op, arg) ==
    LET x == arg[1]
        flight_plans      == {r \in BagToSet(flightplan) : r.plan = x}
        sightseeing_plans == {r \in BagToSet(sightseeingplan) : r.plan = x}
    IN
    CASE op = "Country.plans"  -> Return(Country_plans(x))
      [] op = "Country.cities" -> Return(Country_cities(x))
      [] op = "Airport.plans"  -> Return(Airport_plans(x))
      [] op = "Hotel.rooms"    -> Return(Hotel_rooms(x))
      [] op = "Hotel.country"  ->
            IF CityLoads(HotelRow(x).city)
            THEN Return(Hotel_country(x)) ELSE DoesNotExist
      [] op = "Sightseeing.country" ->
            IF CityLoads(SightseeingRow(x).city)
            THEN Return(Sightseeing_country(x)) ELSE DoesNotExist
      [] op = "Room.duration_in_days" -> Return(Room_duration_in_days(x))
      [] op = "Room.cost_per_day"     -> Room_cost_per_day(x)
      [] op = "Flight.plans"          -> Return(Flight_plans(x))
      [] op = "Flight.duration_in_hours" -> Return(Flight_duration_in_hours(x))
      [] op = "Plan.countries" ->
            IF \A r \in flight_plans : FlightLoads(r.flight)
            THEN Return(Plan_countries(x)) ELSE DoesNotExist
      [] op = "Plan.planes" -> Return(Plan_planes(x))
      [] op = "Plan.sightseeings" ->
            IF \A r \in sightseeing_plans : r.sightseeing \in Ids(sightseeing)
            THEN Return(Plan_sightseeings(x)) ELSE DoesNotExist
      [] op = "Plan.cost" ->
            IF \A r \in sightseeing_plans : r.sightseeing \in Ids(sightseeing)
            THEN Return(Plan_cost(x)) ELSE DoesNotExist
      [] op = "Plan.duration_in_days" -> Plan_duration_in_days(x)
      [] op = "FlightPlan.countries" ->
            IF FlightLoads(x)
            THEN Return(FlightPlan_countries([flight |-> x, plan |-> arg[2]]))
            ELSE DoesNotExist

EvalProperty(op, arg) ==
    /\ arg \in Instances(op)
    /\ result' = Outcome(op, arg, Evaluate(op, arg))
    /\ UNCHANGED store

(***************************************************************************)
(* Fixtures: the rows the test suites' setUp methods store before a test   *)
(* runs.                                                                   *)
(***************************************************************************)
NoResult == [op |-> "setUp", arg |-> <<>>, status |-> "ok", value |-> "None"]

FixtureCity ==
    {[name |-> "City1", country |-> "Country1"],
     [name |-> "City2", country |-> "Country2"]}

FixtureAirport ==
    {[name |-> "Airport1", country |-> "Country1"],
     [name |-> "Airport2", country |-> "Country2"],
     [name |-> "Airport3", country |-> "Country2"]}

FixturePlan ==
    {[name |-> "Plan1", version |-> 1], [name |-> "Plan2", version |-> 1]}

(***************************************************************************)
(* SpecDuration: flights with every pair of departure and arrival times    *)
(* are created, linked to Plan1, unlinked and deleted, and the duration of *)
(* Plan1, of the empty Plan2 and of the flights is evaluated.              *)
(***************************************************************************)
InitDuration ==
    /\ country = CountryNames
    /\ city = FixtureCity
    /\ airport = FixtureAirport
    /\ sightseeing = {}
    /\ hotel = {}
    /\ room = {}
    /\ flight = {}
    /\ plan = FixturePlan
    /\ flightplan = EmptyBag
    /\ sightseeingplan = EmptyBag
    /\ plan_rooms = {}
    /\ result = NoResult

NextDuration ==
    \/ \E n \in FlightNames, ddt \in DateTimes, adt \in DateTimes :
          CreateFlight(n, "Airport1", "Airport2", 100, ddt, adt)
    \/ \E n \in FlightNames : DeleteFlight(n)
    \/ \E f \in FlightNames : CreateFlightPlan(f, "Plan1", 1)
    \/ \E r \in BagToSet(flightplan) : DeleteFlightPlan(r)
    \/ \E p \in PlanNames : EvalPlanDurationInDays(p)
    \/ \E f \in FlightNames : EvalFlightDurationInHours(f)

SpecDuration == InitDuration /\ [][NextDuration]_vars

(***************************************************************************)
(* The flights of a plan, read off the tables directly.                    *)
(***************************************************************************)
LinkedFlights(p) ==
    {f \in flight : \E r \in BagToSet(flightplan) : r.flight = f.name /\ r.plan = p}

MaxOf(S) == CHOOSE x \in S : \A y \in S : y <= x
MinOf(S) == CHOOSE x \in S : \A y \in S : x <= y

\* C2: a plan with at least one flight has duration_in_days equal to the whole
\* days (timedelta.days, rounded towards minus infinity) of the latest arrival
\* minus the earliest departure over its flights, the two taken independently.
C2_DurationIsMaxArrivalMinusMinDeparture ==
    \A p \in Names(plan) :
        LinkedFlights(p) # {} =>
            LET latest   == MaxOf({f.arrival_date_time : f \in LinkedFlights(p)})
                earliest == MinOf({f.departure_date_time : f \in LinkedFlights(p)})
                d        == Plan_duration_in_days(p)
            IN  /\ d.status = "ok"
                /\ d.value * HoursPerDay <= latest - earliest
                /\ latest - earliest < (d.value + 1) * HoursPerDay

\* Witness of C2: a plan whose latest arrival and earliest departure come from
\* different flights, a whole number of days and some hours apart.
C2_Witness ==
    \E p \in Names(plan) : \E f \in LinkedFlights(p), g \in LinkedFlights(p) :
        /\ f # g
        /\ \A h \in LinkedFlights(p) : h.arrival_date_time <= f.arrival_date_time
        /\ g.arrival_date_time < f.arrival_date_time
        /\ g.departure_date_time < f.departure_date_time
        /\ (f.arrival_date_time - g.departure_date_time) % HoursPerDay # 0
        /\ Plan_duration_in_days(p).status = "ok"
        /\ Plan_duration_in_days(p).value = 1

\* C3: evaluating duration_in_days of a plan without flights raises
\* ValueError("No planes in the plan") and changes no table.
C3_NoFlightsRaisesValueError ==
    [][(result'.op = "Plan.duration_in_days" /\ LinkedFlights(result'.arg[1]) = {})
        => /\ result'.status = "ValueError"
           /\ result'.value = "No planes in the plan"
           /\ UNCHANGED store]_vars

\* Witness of C3: the error was raised for a plan that lost its only flight
\* link while the flight itself, or another flight, is still stored.
C3_Witness ==
    /\ result.op = "Plan.duration_in_days"
    /\ result.status = "ValueError"
    /\ result.value = "No planes in the plan"
    /\ flight # {}
    /\ LinkedFlights(result.arg[1]) = {}
(***************************************************************************)
(* SpecRoutes: flights between every pair of airports are created, linked  *)
(* to plans, unlinked and deleted; airports are deleted.                   *)
(***************************************************************************)
InitRoutes ==
    /\ country = CountryNames
    /\ city = FixtureCity
    /\ airport = FixtureAirport
    /\ sightseeing = {}
    /\ hotel = {}
    /\ room = {}
    /\ flight = {}
    /\ plan = FixturePlan
    /\ flightplan = EmptyBag
    /\ sightseeingplan = EmptyBag
    /\ plan_rooms = {}
    /\ result = NoResult

NextRoutes ==
    \/ \E n \in FlightNames, dep \in AirportNames, arr \in AirportNames :
          CreateFlight(n, dep, arr, 100, 10, 14)
    \/ \E n \in FlightNames : DeleteFlight(n)
    \/ \E f \in FlightNames, p \in PlanNames : CreateFlightPlan(f, p, 1)
    \/ \E r \in BagToSet(flightplan) : DeleteFlightPlan(r)
    \/ \E a \in AirportNames : DeleteAirport(a)

SpecRoutes == InitRoutes /\ [][NextRoutes]_vars

\* The airports of a country and the endpoints of a flight, read off the tables.
AirportsOf(c) == {a.name : a \in {x \in airport : x.country = c}}
Endpoints(f)  == {f.departure, f.arrival}

\* C4: Country.plans holds exactly the plans with a flight that departs from
\* or arrives at an airport of the country, each of them once.
C4_CountryPlansExact ==
    \A c \in country :
        Country_plans(c) =
            SetToBag({pl \in plan : \E f \in LinkedFlights(pl.name) :
                          Endpoints(f) \cap AirportsOf(c) # {}})

\* Witness of C4: a plan with two flight plans that match the same country, one
\* of them with both endpoints in it, is listed once for that country.
C4_Witness ==
    \E c \in country : \E pl \in plan :
        /\ \E f \in LinkedFlights(pl.name), g \in LinkedFlights(pl.name) :
              /\ f # g
              /\ Endpoints(f) \subseteq AirportsOf(c)
              /\ f.departure # f.arrival
              /\ Endpoints(g) \cap AirportsOf(c) # {}
        /\ BagIn(pl, Country_plans(c))
        /\ CopiesIn(pl, Country_plans(c)) = 1
        /\ \E q \in plan : ~BagIn(q, Country_plans(c))

\* C5: Plan.countries is exactly the set of countries of the departure and
\* arrival airports of the plan's flights.
C5_PlanCountriesExact ==
    \A p \in Names(plan) :
        Plan_countries(p) =
            {c \in country : \E f \in LinkedFlights(p) :
                                Endpoints(f) \cap AirportsOf(c) # {}}

\* Witness of C5: a plan that flies between two countries, with a third country
\* and an unused airport outside its countries.
C5_Witness ==
    \E p \in Names(plan) :
        /\ Cardinality(Plan_countries(p)) = 2
        /\ "Country3" \in country
        /\ "Country3" \notin Plan_countries(p)
        /\ \E f \in LinkedFlights(p) :
              AirportRow(f.departure).country # AirportRow(f.arrival).country

FixtureHotel == {[id |-> 1, city |-> "City1"], [id |-> 2, city |-> "City2"]}

InitCost ==
    /\ country = CountryNames
    /\ city = FixtureCity
    /\ airport = FixtureAirport
    /\ hotel = FixtureHotel
    /\ \E c1 \in Costs, c2 \in Costs :
          sightseeing = {[id |-> 1, city |-> "City1", cost |-> c1],
                         [id |-> 2, city |-> "City2", cost |-> c2]}
    /\ \E c1 \in Costs, c2 \in Costs :
          room = {[id |-> 1, hotel |-> 1, from_date |-> 0, to_date |-> 1, cost |-> c1],
                  [id |-> 2, hotel |-> 2, from_date |-> 0, to_date |-> 1, cost |-> c2]}
    /\ \E c1 \in Costs, c2 \in Costs :
          flight = {[name |-> "Flight1", departure |-> "Airport1",
                     arrival |-> "Airport2", cost |-> c1,
                     departure_date_time |-> 10, arrival_date_time |-> 14],
                    [name |-> "Flight2", departure |-> "Airport2",
                     arrival |-> "Airport1", cost |-> c2,
                     departure_date_time |-> 10, arrival_date_time |-> 14]}
    /\ plan = FixturePlan
    /\ flightplan = SetToBag({[flight |-> "Flight1", plan |-> "Plan1", order |-> 1],
                              [flight |-> "Flight2", plan |-> "Plan1", order |-> 2]})
    /\ sightseeingplan = SetToBag({[sightseeing |-> 1, plan |-> "Plan1", order |-> 1],
                                   [sightseeing |-> 2, plan |-> "Plan1", order |-> 2]})
    /\ plan_rooms = {[plan |-> "Plan1", room |-> 1], [plan |-> "Plan1", room |-> 2]}
    /\ result = NoResult

NextCost ==
    \/ \E f \in FlightNames : CreateFlightPlan(f, "Plan2", 1)
    \/ \E r \in BagToSet(flightplan) : r.plan = "Plan2" /\ DeleteFlightPlan(r)
    \/ \E i \in Ids(sightseeing) : CreateSightseeingPlan(i, "Plan2", 1)
    \/ \E r \in BagToSet(sightseeingplan) : r.plan = "Plan2" /\ DeleteSightseeingPlan(r)
    \/ \E i \in Ids(room) : PlanRoomsAdd("Plan2", i)
    \/ \E i \in Ids(room) : PlanRoomsRemove("Plan2", i)

SpecCost == InitCost /\ [][NextCost]_vars

\* The rooms and sightseeings of a plan, read off the tables directly.
LinkedRooms(p) ==
    {r \in room : [plan |-> p, room |-> r.id] \in plan_rooms}
LinkedSightseeings(p) ==
    {x \in sightseeing :
        \E r \in BagToSet(sightseeingplan) : r.sightseeing = x.id /\ r.plan = p}

\* C1: the cost of a plan is the sum of the costs of its rooms, of its
\* sightseeings and of its flights, each linked entity counted once; a plan
\* with nothing attached costs 0.
C1_CostIsSumOfLinked ==
    \A p \in Names(plan) :
        /\ Plan_cost(p) = SumFn([r \in LinkedRooms(p) |-> r.cost])
                          + SumFn([x \in LinkedSightseeings(p) |-> x.cost])
                          + SumFn([f \in LinkedFlights(p) |-> f.cost])
        /\ (LinkedRooms(p) = {} /\ LinkedSightseeings(p) = {} /\ LinkedFlights(p) = {})
              => Plan_cost(p) = 0

\* Witness of C1: a plan with two rooms, two sightseeings and two flights, all
\* of the same non-zero cost and all shared with another plan, costs six times
\* that cost.
C1_Witness ==
    \E p \in Names(plan), q \in Names(plan) :
        /\ p # q
        /\ Cardinality(LinkedRooms(p)) = 2 /\ LinkedRooms(q) = LinkedRooms(p)
        /\ Cardinality(LinkedSightseeings(p)) = 2
        /\ LinkedSightseeings(q) = LinkedSightseeings(p)
        /\ Cardinality(LinkedFlights(p)) = 2 /\ LinkedFlights(q) = LinkedFlights(p)
        /\ \A r \in LinkedRooms(p) : r.cost = MaxCost
        /\ \A x \in LinkedSightseeings(p) : x.cost = MaxCost
        /\ \A f \in LinkedFlights(p) : f.cost = MaxCost
        /\ result.op = "Plan.rooms.add"
        /\ Plan_cost(p) = 6 * MaxCost
(***************************************************************************)
(* SpecJoin: plans of every name and version are created and deleted, and  *)
(* join rows of every order are created and deleted, over the first       *)
(* flight of FlightPlanModelTest.setUp and the sightseeing of              *)
(* SightseeingPlanModelTest.setUp.                                         *)
(***************************************************************************)
FixtureFlight1 ==
    [name |-> "Flight1", departure |-> "Airport1", arrival |-> "Airport2",
     cost |-> 100, departure_date_time |-> 10, arrival_date_time |-> 14]
FixtureFlight2 ==
    [name |-> "Flight2", departure |-> "Airport3", arrival |-> "Airport1",
     cost |-> 150, departure_date_time |-> 232, arrival_date_time |-> 236]

InitJoin ==
    /\ country = CountryNames
    /\ city = FixtureCity
    /\ airport = FixtureAirport
    /\ sightseeing = {[id |-> 1, city |-> "City1", cost |-> 100]}
    /\ hotel = {}
    /\ room = {}
    /\ flight = {FixtureFlight1}
    /\ plan = {}
    /\ flightplan = EmptyBag
    /\ sightseeingplan = EmptyBag
    /\ plan_rooms = {}
    /\ result = NoResult

NextJoin ==
    \/ \E n \in PlanNames, v \in Versions : CreatePlan(n, v)
    \/ \E n \in PlanNames : DeletePlan(n)
    \/ \E f \in Names(flight), p \in PlanNames, o \in Orders :
          CreateFlightPlan(f, p, o)
    \/ \E r \in BagToSet(flightplan) : DeleteFlightPlan(r)
    \/ \E i \in Ids(sightseeing), p \in PlanNames, o \in Orders :
          CreateSightseeingPlan(i, p, o)
    \/ \E r \in BagToSet(sightseeingplan) : DeleteSightseeingPlan(r)

SpecJoin == InitJoin /\ [][NextJoin]_vars

FlightPlanRows(f, p) ==
    BagCardinality(BagRestrict(flightplan,
        {r \in BagToSet(flightplan) : r.flight = f /\ r.plan = p}))
SightseeingPlanRows(i, p) ==
    BagCardinality(BagRestrict(sightseeingplan,
        {r \in BagToSet(sightseeingplan) : r.sightseeing = i /\ r.plan = p}))

AtMostOneRowPerPair ==
    /\ \A f \in Names(flight), p \in Names(plan) : FlightPlanRows(f, p) <= 1
    /\ \A i \in Ids(sightseeing), p \in Names(plan) : SightseeingPlanRows(i, p) <= 1

\* C7: creating a FlightPlan (SightseeingPlan) for a pair that already has a
\* row raises an error, whatever the order, and changes no table; no pair ever
\* has more than one join row.
C7_DuplicateJoinRowRejected ==
    [][/\ (/\ result'.op = "FlightPlan.create"
           /\ FlightPlanRows(result'.arg[1], result'.arg[2]) > 0)
          => (result'.status = "IntegrityError" /\ UNCHANGED store)
       /\ (/\ result'.op = "SightseeingPlan.create"
           /\ SightseeingPlanRows(result'.arg[1], result'.arg[2]) > 0)
          => (result'.status = "IntegrityError" /\ UNCHANGED store)
       /\ AtMostOneRowPerPair'
      ]_vars

\* Witness of C7: a creation was rejected for a pair whose stored row has
\* another order than some order the creation can be given, while join rows
\* of both kinds are stored.
C7_Witness ==
    /\ result.op = "FlightPlan.create"
    /\ result.status = "IntegrityError"
    /\ \E r \in BagToSet(flightplan) :
          /\ r.flight = result.arg[1] /\ r.plan = result.arg[2]
          /\ r.order = MaxOrder
    /\ BagCardinality(flightplan) = 2
    /\ BagCardinality(sightseeingplan) > 0

\* C8: a Plan.objects.create(name, version) is rejected only when a plan with
\* the same name and the same version is stored, so that two versions of a
\* name can be stored together.
C8_PlanIdentityIsNameAndVersion ==
    [][result'.op = "Plan.create"
        => (result'.status = "ok"
              <=> [name |-> result'.arg[1], version |-> result'.arg[2]] \notin plan)
      ]_vars
(***************************************************************************)
(* Spec: the fully linked store (PlanModelTests.setUp with a third room    *)
(* and a second plan sharing entities with the first) under every          *)
(* deletion and under rooms.add / remove on the second plan.               *)
(***************************************************************************)
FixtureSightseeing ==
    {[id |-> 1, city |-> "City1", cost |-> 50],
     [id |-> 2, city |-> "City2", cost |-> 60]}

FixtureRoom ==
    {[id |-> 1, hotel |-> 1, from_date |-> 0, to_date |-> 1, cost |-> 100],
     [id |-> 2, hotel |-> 2, from_date |-> 0, to_date |-> 2, cost |-> 200],
     [id |-> 3, hotel |-> 1, from_date |-> 0, to_date |-> 3, cost |-> 300]}

Init ==
    /\ country = {"Country1", "Country2"}
    /\ city = FixtureCity
    /\ airport = FixtureAirport
    /\ sightseeing = FixtureSightseeing
    /\ hotel = FixtureHotel
    /\ room = FixtureRoom
    /\ flight = {FixtureFlight1, FixtureFlight2}
    /\ plan = FixturePlan
    /\ flightplan = SetToBag({[flight |-> "Flight1", plan |-> "Plan1", order |-> 1],
                              [flight |-> "Flight2", plan |-> "Plan1", order |-> 2],
                              [flight |-> "Flight1", plan |-> "Plan2", order |-> 1]})
    /\ sightseeingplan = SetToBag({[sightseeing |-> 1, plan |-> "Plan1", order |-> 1],
                                   [sightseeing |-> 2, plan |-> "Plan1", order |-> 2],
                                   [sightseeing |-> 2, plan |-> "Plan2", order |-> 1]})
    /\ plan_rooms = {[plan |-> "Plan1", room |-> 1], [plan |-> "Plan1", room |-> 2],
                     [plan |-> "Plan2", room |-> 2]}
    /\ result = NoResult

Next ==
    \/ \E n \in country : DeleteCountry(n)
    \/ \E n \in CityNames : DeleteCity(n)
    \/ \E i \in Ids(sightseeing) : DeleteSightseeing(i)
    \/ \E i \in Ids(hotel) : DeleteHotel(i)
    \/ \E i \in Ids(room) : DeleteRoom(i)
    \/ \E n \in AirportNames : DeleteAirport(n)
    \/ \E n \in FlightNames : DeleteFlight(n)
    \/ \E n \in PlanNames : DeletePlan(n)
    \/ \E i \in Ids(room) : PlanRoomsAdd("Plan2", i)
    \/ \E i \in Ids(room) : PlanRoomsRemove("Plan2", i)

Spec == Init /\ [][Next]_vars

\* C9: deleting a plan removes its FlightPlan and SightseeingPlan rows and its
\* plan-room links, and nothing else: every room, flight and sightseeing stays
\* stored, and the rooms, planes, sightseeings and cost of the other plans are
\* the same as before.
C9_DeletePlanKeepsReferencedEntities ==
    [][result'.op = "Plan.delete" =>
        LET n == result'.arg[1]
        IN  /\ plan' = {q \in plan : q.name # n}
            /\ flightplan' = BagRestrict(flightplan,
                    {r \in BagToSet(flightplan) : r.plan # n})
            /\ sightseeingplan' = BagRestrict(sightseeingplan,
                    {r \in BagToSet(sightseeingplan) : r.plan # n})
            /\ plan_rooms' = {l \in plan_rooms : l.plan # n}
            /\ UNCHANGED <<geo, lodge, flight>>
            /\ \A q \in Names(plan) \ {n} :
                  /\ Plan_rooms_all(q)' = Plan_rooms_all(q)
                  /\ Plan_planes(q)' = Plan_planes(q)
                  /\ Plan_sightseeings(q)' = Plan_sightseeings(q)
                  /\ Plan_cost(q)' = Plan_cost(q)
      ]_vars

\* Witness of C9: a plan was deleted whose room, flight and sightseeing are
\* still linked to the plan that is left.
C9_Witness ==
    /\ result.op = "Plan.delete"
    /\ result.arg[1] = "Plan1"
    /\ room = FixtureRoom
    /\ sightseeing = FixtureSightseeing
    /\ Cardinality(flight) = 2
    /\ LinkedRooms("Plan2") # {}
    /\ LinkedFlights("Plan2") # {}
    /\ LinkedSightseeings("Plan2") # {}
    /\ BagCardinality(flightplan) = 1
    /\ Plan_cost("Plan2") = 360

\* C10: one delete of a country removes its cities and airports, their hotels
\* and sightseeings and the hotels' rooms; one delete of a city removes its
\* hotels, sightseeings and the hotels' rooms; one delete of a hotel removes
\* its rooms; every other country, city, airport, hotel, sightseeing and room
\* stays stored.
C10_DeleteCascadesDownOwnership ==
    [][/\ result'.op = "Country.delete" =>
            LET n == result'.arg[1]
            IN  /\ country' = country \ {n}
                /\ city' = {c \in city : c.country # n}
                /\ airport' = {a \in airport : a.country # n}
                /\ hotel' = {h \in hotel : CityRow(h.city).country # n}
                /\ sightseeing' = {x \in sightseeing : CityRow(x.city).country # n}
                /\ room' = {r \in room : CityRow(HotelRow(r.hotel).city).country # n}
       /\ result'.op = "City.delete" =>
            LET n == result'.arg[1]
            IN  /\ city' = {c \in city : c.name # n}
                /\ hotel' = {h \in hotel : h.city # n}
                /\ sightseeing' = {x \in sightseeing : x.city # n}
                /\ room' = {r \in room : HotelRow(r.hotel).city # n}
                /\ UNCHANGED <<country, airport>>
       /\ result'.op = "Hotel.delete" =>
            LET i == result'.arg[1]
            IN  /\ hotel' = {h \in hotel : h.id # i}
                /\ room' = {r \in room : r.hotel # i}
                /\ UNCHANGED <<country, city, airport, sightseeing>>
      ]_vars

\* Witness of C10: Country1 was deleted from the full store; its city, hotel,
\* two rooms, sightseeing and airport are gone and those of Country2 are left.
C10_Witness ==
    /\ result.op = "Country.delete"
    /\ result.arg[1] = "Country1"
    /\ country = {"Country2"}
    /\ Names(city) = {"City2"}
    /\ Ids(hotel) = {2}
    /\ Ids(room) = {2}
    /\ Ids(sightseeing) = {2}
    /\ Names(airport) = {"Airport2", "Airport3"}

\* What is left of the plans after the flights dF and the sightseeings dS
\* went away: the plans themselves and their rooms stay, and planes,
\* sightseeings, countries and cost are those of the entities that are left.
C11_PlansWithout(dF, dS) ==
    /\ plan' = plan
    /\ plan_rooms' = plan_rooms
    /\ flightplan' = BagRestrict(flightplan,
            {r \in BagToSet(flightplan) : r.flight \notin Names(dF)})
    /\ sightseeingplan' = BagRestrict(sightseeingplan,
            {r \in BagToSet(sightseeingplan) : r.sightseeing \notin Ids(dS)})
    /\ \A q \in Names(plan) :
          LET Kept(x) == x \notin dS
          IN  /\ DOMAIN (Plan_planes(q)') = (DOMAIN Plan_planes(q)) \ dF
              /\ Plan_sightseeings(q)' = SelectSeq(Plan_sightseeings(q), Kept)
              /\ Plan_countries(q)' =
                    {AirportRow(a).country :
                        a \in UNION {Endpoints(f) : f \in LinkedFlights(q) \ dF}}
              /\ Plan_cost(q)' = Plan_cost(q)
                    - SumFn([f \in LinkedFlights(q) \cap dF |-> f.cost])
                    - SumFn([x \in LinkedSightseeings(q) \cap dS |-> x.cost])

\* C11: deleting an airport deletes the flights that depart from or arrive at
\* it; deleting a flight deletes the FlightPlan rows that refer to it; deleting
\* a sightseeing deletes the SightseeingPlan rows that refer to it; an airport
\* that goes with its country takes its flights along as well.  The plans
\* stay stored, and their planes, sightseeings, countries and cost no longer
\* include what was deleted.
C11_DeleteCascadesIntoJoinRows ==
    [][/\ result'.op = "Airport.delete" =>
            LET n  == result'.arg[1]
                dF == {f \in flight : n \in Endpoints(f)}
            IN  /\ airport' = {a \in airport : a.name # n}
                /\ flight' = flight \ dF
                /\ UNCHANGED <<country, city, lodge>>
                /\ C11_PlansWithout(dF, {})
       /\ result'.op = "Country.delete" =>
            LET dF == {f \in flight :
                          Endpoints(f) \cap AirportsOf(result'.arg[1]) # {}}
            IN  /\ flight' = flight \ dF
                /\ plan' = plan
                /\ flightplan' = BagRestrict(flightplan,
                        {r \in BagToSet(flightplan) : r.flight \notin Names(dF)})
       /\ result'.op = "Flight.delete" =>
            LET dF == {f \in flight : f.name = result'.arg[1]}
            IN  /\ flight' = flight \ dF
                /\ UNCHANGED <<geo, lodge>>
                /\ C11_PlansWithout(dF, {})
       /\ result'.op = "Sightseeing.delete" =>
            LET dS == {x \in sightseeing : x.id = result'.arg[1]}
            IN  /\ sightseeing' = sightseeing \ dS
                /\ UNCHANGED <<geo, hotel, room, flight>>
                /\ C11_PlansWithout({}, dS)
      ]_vars

\* Witness of C11: Airport1 was deleted from the full store; Flight1 departed
\* from it and Flight2 arrived at it, both are gone with their three
\* FlightPlan rows, and Plan1 is left with its rooms and sightseeings.
C11_Witness ==
    /\ result.op = "Airport.delete"
    /\ result.arg[1] = "Airport1"
    /\ flight = {}
    /\ flightplan = EmptyBag
    /\ plan = FixturePlan
    /\ Plan_planes("Plan1") = EmptyBag
    /\ Plan_countries("Plan1") = {}
    /\ Len(Plan_sightseeings("Plan1")) = 2
    /\ Plan_cost("Plan1") = 410

(***************************************************************************)
(* SpecRoom: the store of RoomModelTest.setUp (one country, city and       *)
(* hotel); rooms of every date range and cost are created and deleted and  *)
(* their duration_in_days and cost_per_day are evaluated.                  *)
(***************************************************************************)
InitRoom ==
    /\ country = {"Country1"}
    /\ city = {[name |-> "City1", country |-> "Country1"]}
    /\ airport = {}
    /\ sightseeing = {}
    /\ hotel = {[id |-> 1, city |-> "City1"]}
    /\ room = {}
    /\ flight = {}
    /\ plan = {}
    /\ flightplan = EmptyBag
    /\ sightseeingplan = EmptyBag
    /\ plan_rooms = {}
    /\ result = NoResult

NextRoom ==
    \/ \E i \in RoomIds, h \in HotelIds, fd \in Dates, td \in Dates, c \in RoomCosts :
          CreateRoom(i, h, fd, td, c)
    \/ \E i \in RoomIds : DeleteRoom(i)
    \/ \E i \in RoomIds : EvalRoomDurationInDays(i)
    \/ \E i \in RoomIds : EvalRoomCostPerDay(i)

SpecRoom == InitRoom /\ [][NextRoom]_vars

\* C12: a room whose from_date equals its to_date can be created, and
\* evaluating its cost_per_day raises the division-by-zero error, which
\* reaches the caller as the outcome of the evaluation; no table changes.
C12_EmptyRangeRaisesZeroDivision ==
    [][/\ (/\ result'.op = "Room.cost_per_day"
           /\ RoomRow(result'.arg[1]).from_date = RoomRow(result'.arg[1]).to_date)
          => /\ result'.status = "ZeroDivisionError"
             /\ UNCHANGED store
       /\ \A h \in Ids(hotel), d \in Dates, c \in RoomCosts :
             RoomInsertAllowed(h, d, d, c)
       /\ (result'.op = "Room.create" /\ result'.status = "ok")
          => \E r \in room' \ room : r.id = result'.arg[1]
      ]_vars

\* Witness of C12: the error was raised for a stored room with an empty date
\* range and a cost that is not 0, next to a room with a proper range.
C12_Witness ==
    /\ result.op = "Room.cost_per_day"
    /\ result.status = "ZeroDivisionError"
    /\ \E r \in room : /\ r.id = result.arg[1]
                       /\ r.from_date = r.to_date
                       /\ r.cost > 0
    /\ \E r \in room : r.from_date < r.to_date

Abs(x) == IF x < 0 THEN -x ELSE x

\* C13: for a room whose duration_in_days is not 0, positive or negative,
\* cost_per_day times duration_in_days is the cost: exactly when the cost is
\* a multiple of the duration, and otherwise within the rounding of the
\* division (half a unit of the quotient per day).
C13_CostPerDayTimesDurationIsCost ==
    \A r \in room :
        LET d   == Room_duration_in_days(r.id)
            cpd == Room_cost_per_day(r.id)
        IN  d # 0 =>
              /\ cpd.status = "ok"
              /\ 2 * Abs(cpd.value * d - r.cost * FloatScale) <= Abs(d)
              /\ (r.cost % Abs(d) = 0) => cpd.value * d = r.cost * FloatScale

\* Witness of C13: a room with a negative duration that does not divide its
\* cost, and a room with a positive duration that divides its cost.
C13_Witness ==
    /\ \E r \in room :
          /\ Room_duration_in_days(r.id) < -1
          /\ r.cost % Abs(Room_duration_in_days(r.id)) # 0
          /\ Room_cost_per_day(r.id).status = "ok"
          /\ Room_cost_per_day(r.id).value < 0
          /\ Room_cost_per_day(r.id).value * Room_duration_in_days(r.id)
                # r.cost * FloatScale
    /\ \E r \in room :
          /\ Room_duration_in_days(r.id) > 1
          /\ r.cost > 0
          /\ Room_cost_per_day(r.id).value * Room_duration_in_days(r.id)
                = r.cost * FloatScale

\* The hours from departure to arrival of a stored flight, read off the row.
Elapsed(f) == f.arrival_date_time - f.departure_date_time

C15_ReversedFlightHasNegativeDuration ==
    \A f \in flight :
        /\ Elapsed(f) = 0 => Flight_duration_in_hours(f.name) = 0
        /\ Elapsed(f) < 0 => Flight_duration_in_hours(f.name) < 0

(***************************************************************************)
(* SpecOrder: three sightseeings and two plans; SightseeingPlan rows of    *)
(* every order are created and deleted in any sequence and the             *)
(* sightseeings of the plans are evaluated.                                *)
(***************************************************************************)
InitOrder ==
    /\ country = CountryNames
    /\ city = FixtureCity
    /\ airport = {}
    /\ sightseeing = FixtureSightseeing \cup {[id |-> 3, city |-> "City1", cost |-> 70]}
    /\ hotel = {}
    /\ room = {}
    /\ flight = {}
    /\ plan = FixturePlan
    /\ flightplan = EmptyBag
    /\ sightseeingplan = EmptyBag
    /\ plan_rooms = {}
    /\ result = NoResult

NextOrder ==
    \/ \E i \in Ids(sightseeing), p \in PlanNames, o \in Orders :
          CreateSightseeingPlan(i, p, o)
    \/ \E r \in BagToSet(sightseeingplan) : DeleteSightseeingPlan(r)
    \/ \E p \in PlanNames : EvalPlanSightseeings(p)

SpecOrder == InitOrder /\ [][NextOrder]_vars

\* The SightseeingPlan rows of a plan and the order a sightseeing has in it.
SightseeingPlansOf(p) == {r \in BagToSet(sightseeingplan) : r.plan = p}
OrderIn(p, i) == (CHOOSE r \in SightseeingPlansOf(p) : r.sightseeing = i).order

\* A list of sightseeings has one entry per SightseeingPlan row of the plan
\* and ascends by the order of the rows.
ListsRowsInOrder(l, p) ==
    /\ Len(l) = BagCardinality(BagRestrict(sightseeingplan, SightseeingPlansOf(p)))
    /\ \A r \in SightseeingPlansOf(p) :
          Cardinality({k \in DOMAIN l : l[k] = SightseeingRow(r.sightseeing)}) = 1
    /\ \A j \in DOMAIN l, k \in DOMAIN l :
          j < k => OrderIn(p, l[j].id) <= OrderIn(p, l[k].id)

\* C16: Plan.sightseeings is a list with exactly one entry per SightseeingPlan
\* row of the plan, ascending by the order of the rows, after any sequence of
\* additions and removals of rows.
C16_SightseeingsListedInOrder ==
    [][/\ result'.op = "Plan.sightseeings" =>
            /\ result'.status = "ok"
            /\ ListsRowsInOrder(result'.value, result'.arg[1])
       /\ \A p \in Names(plan) : ListsRowsInOrder(Plan_sightseeings(p), p)
      ]_vars

\* Witness of C16: the sightseeings with ids 3, 1, 2 were returned in that
\* sequence: the row of sightseeing 3 has the lowest order and was not
\* created first, and the other two rows share the highest order.
C16_Witness ==
    /\ result.op = "Plan.sightseeings"
    /\ Len(result.value) = 3
    /\ result.value[1].id = 3 /\ result.value[2].id = 1 /\ result.value[3].id = 2
    /\ OrderIn(result.arg[1], 3) = 1
    /\ OrderIn(result.arg[1], 1) = MaxOrder
    /\ OrderIn(result.arg[1], 2) = MaxOrder

\* The plans that have a FlightPlan row for a flight, read off the tables.
LinkedPlans(f) ==
    {pl \in plan : \E r \in BagToSet(flightplan) : r.plan = pl.name /\ r.flight = f}

FixtureRoomEmptyRange ==
    {[id |-> 1, hotel |-> 1, from_date |-> 0, to_date |-> 1, cost |-> 100],
     [id |-> 2, hotel |-> 2, from_date |-> 0, to_date |-> 2, cost |-> 200],
     [id |-> 3, hotel |-> 1, from_date |-> 1, to_date |-> 1, cost |-> 300]}

InitReads ==
    /\ country = {"Country1", "Country2"}
    /\ city = FixtureCity
    /\ airport = FixtureAirport
    /\ sightseeing = FixtureSightseeing
    /\ hotel = FixtureHotel
    /\ room = FixtureRoomEmptyRange
    /\ flight = {FixtureFlight1, FixtureFlight2}
    /\ plan = FixturePlan
    /\ flightplan = SetToBag({[flight |-> "Flight1", plan |-> "Plan1", order |-> 1],
                              [flight |-> "Flight2", plan |-> "Plan1", order |-> 2],
                              [flight |-> "Flight1", plan |-> "Plan2", order |-> 1]})
    /\ sightseeingplan = SetToBag({[sightseeing |-> 1, plan |-> "Plan1", order |-> 1],
                                   [sightseeing |-> 2, plan |-> "Plan1", order |-> 2],
                                   [sightseeing |-> 2, plan |-> "Plan2", order |-> 1]})
    /\ plan_rooms = {[plan |-> "Plan1", room |-> 1], [plan |-> "Plan1", room |-> 2],
                     [plan |-> "Plan2", room |-> 2]}
    /\ result = NoResult

NextReads ==
    \/ \E n \in country : DeleteCountry(n)
    \/ \E n \in CityNames : DeleteCity(n)
    \/ \E i \in Ids(sightseeing) : DeleteSightseeing(i)
    \/ \E i \in Ids(hotel) : DeleteHotel(i)
    \/ \E i \in Ids(room) : DeleteRoom(i)
    \/ \E n \in AirportNames : DeleteAirport(n)
    \/ \E n \in FlightNames : DeleteFlight(n)
    \/ \E n \in PlanNames : DeletePlan(n)
    \/ \E op \in ReadOps : \E arg \in Instances(op) : EvalProperty(op, arg)

SpecReads == InitReads /\ [][NextReads]_vars

\* The derived properties that have a failure of their own.
FailingOps == {"Room.cost_per_day", "Plan.duration_in_days"}

\* C18: of the derived properties only Room.cost_per_day (on an empty date
\* range) and Plan.duration_in_days (on a plan without flights) fail; every
\* other one returns a value on every stored instance, and the value is an
\* empty collection or 0 where nothing is attached.
C18_OnlyTwoPropertiesFail ==
    /\ \A op \in ReadOps \ (FailingOps \cup {"FlightPlan.countries"}) :
          \A arg \in Instances(op) : Evaluate(op, arg).status = "ok"
    /\ \A i \in Ids(room) :
          Evaluate("Room.cost_per_day", <<i>>).status =
              IF RoomRow(i).from_date = RoomRow(i).to_date
              THEN "ZeroDivisionError" ELSE "ok"
    /\ \A p \in Names(plan) :
          /\ Evaluate("Plan.duration_in_days", <<p>>).status =
                IF LinkedFlights(p) = {} THEN "ValueError" ELSE "ok"
          /\ LinkedFlights(p) = {} =>
                /\ Evaluate("Plan.countries", <<p>>).value = {}
                /\ Evaluate("Plan.planes", <<p>>).value = EmptyBag
          /\ LinkedSightseeings(p) = {} =>
                Evaluate("Plan.sightseeings", <<p>>).value = <<>>
          /\ (LinkedFlights(p) = {} /\ LinkedSightseeings(p) = {} /\ LinkedRooms(p) = {})
                => Evaluate("Plan.cost", <<p>>).value = 0
    /\ \A c \in country :
          /\ (\A x \in city : x.country # c) =>
                Evaluate("Country.cities", <<c>>).value = {}
          /\ (\A f \in flight : Endpoints(f) \cap AirportsOf(c) = {}) =>
                Evaluate("Country.plans", <<c>>).value = EmptyBag
    /\ \A a \in Names(airport) :
          (\A f \in flight : a \notin Endpoints(f)) =>
              Evaluate("Airport.plans", <<a>>).value = EmptyBag
    /\ \A i \in Ids(hotel) :
          (\A r \in room : r.hotel # i) => Evaluate("Hotel.rooms", <<i>>).value = {}
    /\ \A f \in Names(flight) :
          LinkedPlans(f) = {} => Evaluate("Flight.plans", <<f>>).value = EmptyBag

\* Witness of C18: the cost of a plan that lost its flights, sightseeings and
\* rooms was evaluated and is 0, its duration_in_days raises, a country, an
\* airport and a flight with nothing attached are stored, and so is the room
\* whose cost_per_day raises.
C18_Witness ==
    /\ result.op = "Plan.cost"
    /\ result.status = "ok"
    /\ result.value = 0
    /\ LinkedFlights(result.arg[1]) = {}
    /\ LinkedSightseeings(result.arg[1]) = {}
    /\ LinkedRooms(result.arg[1]) = {}
    /\ Evaluate("Plan.duration_in_days", result.arg).status = "ValueError"
    /\ \E c \in country : Country_cities(c) = {} /\ Country_plans(c) = EmptyBag
    /\ \E a \in Names(airport) : Airport_plans(a) = EmptyBag
    /\ \E f \in Names(flight) : Flight_plans(f) = EmptyBag
    /\ \E i \in Ids(room) : Evaluate("Room.cost_per_day", <<i>>).status # "ok"

(***************************************************************************)
(* SpecAssign: the sightseeings and hotels of SightseeingModelTest and     *)
(* HotelModelTest are moved between the cities and the cities between the  *)
(* countries, a city and a country are deleted, and the country of every   *)
(* sightseeing and hotel is read.                                          *)
(***************************************************************************)
InitAssign ==
    /\ country = CountryNames
    /\ city = FixtureCity
    /\ airport = {}
    /\ sightseeing = FixtureSightseeing
    /\ hotel = FixtureHotel
    /\ room = {}
    /\ flight = {}
    /\ plan = {}
    /\ flightplan = EmptyBag
    /\ sightseeingplan = EmptyBag
    /\ plan_rooms = {}
    /\ result = NoResult

NextAssign ==
    \/ \E i \in Ids(sightseeing), c \in CityNames : SaveSightseeingCity(i, c)
    \/ \E i \in Ids(hotel), c \in CityNames : SaveHotelCity(i, c)
    \/ \E n \in CityNames, c \in CountryNames : SaveCityCountry(n, c)
    \/ DeleteCity("City2")
    \/ DeleteCountry("Country3")
    \/ \E op \in {"Sightseeing.country", "Hotel.country"} :
          \E arg \in Instances(op) : EvalProperty(op, arg)

SpecAssign == InitAssign /\ [][NextAssign]_vars

Methods == {"GET", "POST", "PUT", "DELETE"}

Country_name_max_length == 100

OverlongName == "a name of 101 letters"

PostedNames ==
    CountryNames \cup {"", " ", " Country3 ", OverlongName}

\* forms.CharField.to_python: the posted text without the white space
\* around it.
CharField_strip(text) ==
    CASE text = " "          -> ""
      [] text = " Country3 " -> "Country3"
      [] OTHER               -> text

\* The number of characters of a posted text.
CharField_length(text) ==
    CASE text = ""           -> 0
      [] text = " "          -> 1
      [] text = " Country3 " -> 10
      [] text = OverlongName -> Country_name_max_length + 1
      [] OTHER               -> 8

\* Mutant of CountryForm_is_valid: the name is required and bounded, but
\* not compared with the stored names.
CountryForm_is_valid_unchecked_unique(text) ==
    /\ CharField_strip(text) # ""
    /\ CharField_length(CharField_strip(text)) <= Country_name_max_length

\* CountryForm(data).is_valid(): the field "name" of the model form is
\* required, holds at most max_length characters after stripping, and,
\* being the primary key of a row to be added, is not the name of a stored
\* Country.
CountryForm_is_valid(text) ==
    /\ CharField_strip(text) # ""
    /\ CharField_length(CharField_strip(text)) <= Country_name_max_length
    /\ CharField_strip(text) \notin country

\* Mutant of CountryForm_save: the instance is built and not committed.
CountryForm_save_uncommitted(text) == country

\* CountryForm.save(): the table with the cleaned instance stored.
CountryForm_save(text) == country \cup {CharField_strip(text)}

HttpResponse(content, status) ==
    [status_code |-> status, content |-> content, url |-> ""]

redirect(to) == [status_code |-> 302, content |-> "", url |-> to]

\* Mutant of create_country_saves: every method but GET is taken as POST.
create_country_saves_unless_get(method, text) ==
    method # "GET" /\ CountryForm_is_valid(text)

\* The branch of create_country that reaches country_form.save().
create_country_saves(method, text) ==
    method = "POST" /\ CountryForm_is_valid(text)

create_country_response(method, text) ==
    CASE method = "GET"  -> HttpResponse("form", 200)
      [] method = "POST" ->
            IF CountryForm_is_valid(text)
            THEN redirect("/countries/")
            ELSE HttpResponse("form", 200)
      [] OTHER           -> HttpResponse("", 405)

create_country(method, text) ==
    /\ country' = IF create_country_saves(method, text)
                  THEN CountryForm_save(text) ELSE country
    /\ result' = Outcome("create_country", <<method, text>>,
                         Return(create_country_response(method, text)))
    /\ UNCHANGED <<city, airport, lodge, flight, plan, links>>

(***************************************************************************)
(* SpecView: requests of every method and posted name reach                *)
(* create_country on a store that starts empty, and countries are deleted. *)
(***************************************************************************)
InitView ==
    /\ country = {}
    /\ city = {}
    /\ airport = {}
    /\ sightseeing = {}
    /\ hotel = {}
    /\ room = {}
    /\ flight = {}
    /\ plan = {}
    /\ flightplan = EmptyBag
    /\ sightseeingplan = EmptyBag
    /\ plan_rooms = {}
    /\ result = NoResult

NextView ==
    \/ \E method \in Methods, text \in PostedNames :
          create_country(method, text)
    \/ \E n \in CountryNames : DeleteCountry(n)

SpecView == InitView /\ [][NextView]_vars

\* C21: a GET of create_country stores nothing and is answered 200 with the
\* form; a POST of a valid name that no stored Country has stores exactly
\* one more Country, the one of that name, and is answered by a redirect
\* (302).
C21_GetShowsFormPostCreates ==
    [][result'.op = "create_country" =>
          /\ result'.arg[1] = "GET" =>
                /\ UNCHANGED store
                /\ result'.value.status_code = 200
                /\ result'.value.content = "form"
          /\ (/\ result'.arg[1] = "POST"
              /\ CountryForm_is_valid(result'.arg[2])) =>
                /\ CharField_strip(result'.arg[2]) \notin country
                /\ country' = country \cup {CharField_strip(result'.arg[2])}
                /\ Cardinality(country') = Cardinality(country) + 1
                /\ UNCHANGED <<city, airport, lodge, flight, plan, links>>
                /\ result'.value.status_code = 302
      ]_vars

\* Witness of C21: the form was posted with " Country3 " while Country1 was
\* stored; Country3 is stored next to it and the answer is the redirect.
C21_Witness ==
    /\ result.op = "create_country"
    /\ result.arg = <<"POST", " Country3 ">>
    /\ result.value.status_code = 302
    /\ result.value.url = "/countries/"
    /\ country = {"Country1", "Country3"}

\* C22: a request to create_country whose method is neither GET nor POST is
\* answered 405 and leaves the stored Countries, and every other table, as
\* they were.
C22_OtherMethodsNotAllowed ==
    [][(/\ result'.op = "create_country"
        /\ result'.arg[1] \notin {"GET", "POST"}) =>
          /\ result'.value.status_code = 405
          /\ UNCHANGED store
      ]_vars

\* Witness of C22: a PUT carrying a valid unused name was answered 405 and
\* the name is not stored.
C22_Witness ==
    /\ result.op = "create_country"
    /\ result.arg = <<"PUT", "Country2">>
    /\ result.value.status_code = 405
    /\ country = {"Country1"}

\* C30: a POST to create_country with an empty name or with the name of a
\* stored Country stores nothing, changes nothing and is answered 200 with
\* the form; a POST answered by the redirect added a name no stored Country
\* had, so no request ever stores a second Country of a stored name.
C30_InvalidPostStoresNothing ==
    [][(/\ result'.op = "create_country"
        /\ result'.arg[1] = "POST") =>
          /\ (\/ CharField_strip(result'.arg[2]) = ""
              \/ CharField_strip(result'.arg[2]) \in country) =>
                /\ UNCHANGED store
                /\ result'.value.status_code = 200
                /\ result'.value.content = "form"
          /\ result'.value.status_code = 302 =>
                /\ CharField_strip(result'.arg[2]) \notin country
                /\ Cardinality(country') = Cardinality(country) + 1
      ]_vars

\* Witness of C30: Country1 was posted while Country1 and Country2 were
\* stored; the answer is the form and the two are still the stored ones.
C30_Witness ==
    /\ result.op = "create_country"
    /\ result.arg = <<"POST", "Country1">>
    /\ result.value.status_code = 200
    /\ result.value.content = "form"
    /\ country = {"Country1", "Country2"}

(***************************************************************************)
(* Tables: country/tables.py and ModelTable of common/components/tables.py *)
(* (common/tables.py holds the same class over a plain sequence).  An      *)
(* item of a page is an object of some class; a row function is given by   *)
(* the number of values it returns for each instance, a value being the    *)
(* pair of the instance and its place in the row.                          *)
(***************************************************************************)
MaxPageLen == 3
MaxRowLen  == 2

CountryInstances == {[class |-> "Country", pk |-> n] : n \in CountryNames}

PageItems ==
    CountryInstances
        \cup {[class |-> "int", pk |-> "1"], [class |-> "City", pk |-> "City1"]}

Pages == UNION {[1..n -> PageItems] : n \in 0..MaxPageLen}

CountryPages == UNION {[1..n -> CountryInstances] : n \in 0..MaxPageLen}

isinstance(item, class) == item.class = class

ColumnNames == <<"name", "number of cities", "plans", "airports">>

ColumnLists == {SubSeq(ColumnNames, 1, k) : k \in 1..MaxRowLen}

RowFuncs == [CountryInstances -> 0..MaxRowLen]

\* row_func(instance): the list of values the row function returns.
RowOf(row_func, instance) ==
    [k \in 1..row_func[instance] |-> <<instance.pk, k>>]

\* Mutant of CountryTable_all_countries: only the first item is looked at.
CountryTable_first_is_country(countries) ==
    Len(countries) > 0 => isinstance(countries[1], "Country")

\* all(isinstance(country, Country) for country in countries)
CountryTable_all_countries(countries) ==
    \A i \in 1..Len(countries) : isinstance(countries[i], "Country")

\* CountryTable(countries): the table object, or ValueError.
CountryTable(countries) ==
    /\ result' = Outcome("CountryTable", <<countries>>,
          IF CountryTable_all_countries(countries)
          THEN Return([instances |-> countries,
                       columns |-> SubSeq(ColumnNames, 1, 2)])
          ELSE Raise("ValueError",
                "All items in countries must be instances of Country model"))
    /\ UNCHANGED store

\* Mutant of ModelTable_row_fits: a row shorter than the columns passes.
ModelTable_row_fits_if_not_longer(row, columns) == Len(row) <= Len(columns)

\* not (len(row) != len(self._columns))
ModelTable_row_fits(row, columns) == Len(row) = Len(columns)

\* table.rows: the generator object, none of its body run yet.  result
\* holds the generator: the table it iterates, the rows it has yielded and
\* the number of instances it has taken.
ModelTable_rows(instances, columns, row_func) ==
    [op |-> "ModelTable.rows",
     arg |-> <<instances, columns, row_func>>,
     status |-> "created",
     value |-> [yielded |-> <<>>, taken |-> 0]]

\* next(generator): the body runs to its next yield, to the raise, or to
\* the end of the loop; a generator that has raised or ended stays ended.
ModelTable_rows_next ==
    /\ result.op = "ModelTable.rows"
    /\ LET instances == result.arg[1]
           columns   == result.arg[2]
           row_func  == result.arg[3]
           g         == result.value
           row       == RowOf(row_func, instances[g.taken + 1])
       IN  result' =
             IF result.status \in {"ValueError", "StopIteration"}
                    \/ g.taken = Len(instances)
             THEN [result EXCEPT !.status = "StopIteration"]
             ELSE IF ModelTable_row_fits(row, columns)
             THEN [result EXCEPT
                     !.status = "yield",
                     !.value = [yielded |-> Append(g.yielded, row),
                                taken |-> g.taken + 1]]
             ELSE [result EXCEPT
                     !.status = "ValueError",
                     !.value = [yielded |-> g.yielded,
                                taken |-> g.taken + 1]]
    /\ UNCHANGED store

(***************************************************************************)
(* SpecTable: a CountryTable is built over every page, on the store of     *)
(* CountryTableTest.setUp.                                                 *)
(***************************************************************************)
InitTable ==
    /\ country = CountryNames
    /\ city = {}
    /\ airport = {}
    /\ sightseeing = {}
    /\ hotel = {}
    /\ room = {}
    /\ flight = {}
    /\ plan = {}
    /\ flightplan = EmptyBag
    /\ sightseeingplan = EmptyBag
    /\ plan_rooms = {}
    /\ result = NoResult

NextTable == \E countries \in Pages : CountryTable(countries)

SpecTable == InitTable /\ [][NextTable]_vars

(***************************************************************************)
(* SpecRows: the rows of a table over any page of Countries, any columns   *)
(* and any row function are iterated to the end.                           *)
(***************************************************************************)
InitRows ==
    /\ country = CountryNames
    /\ city = {}
    /\ airport = {}
    /\ sightseeing = {}
    /\ hotel = {}
    /\ room = {}
    /\ flight = {}
    /\ plan = {}
    /\ flightplan = EmptyBag
    /\ sightseeingplan = EmptyBag
    /\ plan_rooms = {}
    /\ \E instances \in CountryPages, columns \in ColumnLists,
          row_func \in RowFuncs :
          result = ModelTable_rows(instances, columns, row_func)

NextRows == ModelTable_rows_next

SpecRows == InitRows /\ [][NextRows]_vars

\* C23: constructing a CountryTable raises ValueError when some item of the
\* page is not a Country, and gives the table when every item is one.
C23_CountryTableChecksItems ==
    result.op = "CountryTable" =>
        LET page == result.arg[1]
        IN  IF \E i \in 1..Len(page) : page[i].class # "Country"
            THEN result.status = "ValueError"
            ELSE /\ result.status = "ok"
                 /\ result.value.instances = page

\* Witness of C23: a page of two Countries followed by a City was refused.
C23_Witness ==
    /\ result.op = "CountryTable"
    /\ Len(result.arg[1]) = 3
    /\ result.arg[1][1].class = "Country"
    /\ result.arg[1][2].class = "Country"
    /\ result.arg[1][3].class = "City"
    /\ result.status = "ValueError"

\* The places of the instances whose row has not as many values as there
\* are columns.
MisfitPlaces(instances, columns, row_func) ==
    {i \in 1..Len(instances) : row_func[instances[i]] # Len(columns)}

\* The number of rows an iteration can yield: all of them, or those before
\* the first misfit.
YieldLimit(instances, columns, row_func) ==
    IF MisfitPlaces(instances, columns, row_func) = {}
    THEN Len(instances)
    ELSE MinOf(MisfitPlaces(instances, columns, row_func)) - 1

\* C26: the rows yielded so far are, in order, the rows of the first
\* instances, each with as many values as there are columns; none is
\* yielded from the first misfit on; and a step of the iteration that has
\* yielded every row before the first misfit raises ValueError, any other
\* step of a running iteration yields the next row or, past the last
\* instance, ends.
C26_RowsYieldedUntilFirstMisfit ==
    [][(result'.op = "ModelTable.rows") =>
          LET instances == result'.arg[1]
              columns   == result'.arg[2]
              row_func  == result'.arg[3]
              limit     == YieldLimit(instances, columns, row_func)
              yielded   == result'.value.yielded
          IN  /\ Len(yielded) <= limit
              /\ \A i \in 1..Len(yielded) :
                    /\ yielded[i] = RowOf(row_func, instances[i])
                    /\ Len(yielded[i]) = Len(columns)
              /\ (/\ result.op = "ModelTable.rows"
                  /\ result.status \in {"created", "yield"}) =>
                    /\ result'.arg = result.arg
                    /\ LET before == Len(result.value.yielded)
                       IN  IF before < limit
                           THEN /\ result'.status = "yield"
                                /\ yielded = Append(result.value.yielded,
                                      RowOf(row_func, instances[before + 1]))
                           ELSE /\ yielded = result.value.yielded
                                /\ result'.status =
                                      IF limit < Len(instances)
                                      THEN "ValueError" ELSE "StopIteration"
      ]_vars

\* Witness of C26: over three instances and two columns the row function
\* returned two values for the first and one for the second; one row was
\* yielded, then ValueError was raised.
C26_Witness ==
    /\ result.op = "ModelTable.rows"
    /\ result.status = "ValueError"
    /\ Len(result.arg[1]) = 3
    /\ Len(result.arg[2]) = 2
    /\ Len(result.value.yielded) = 1
    /\ result.arg[3][result.arg[1][2]] = 1
    /\ result.arg[3][result.arg[1][3]] = 2

(***************************************************************************)
(* SpecHotel: two hotels; rooms of two costs are created in either hotel   *)
(* and deleted, hotels are deleted, and Hotel.rooms is read.               *)
(***************************************************************************)
InitHotel ==
    /\ country = {"Country1", "Country2"}
    /\ city = FixtureCity
    /\ airport = {}
    /\ sightseeing = {}
    /\ hotel = FixtureHotel
    /\ room = {}
    /\ flight = {}
    /\ plan = {}
    /\ flightplan = EmptyBag
    /\ sightseeingplan = EmptyBag
    /\ plan_rooms = {}
    /\ result = NoResult

NextHotel ==
    \/ \E i \in Ids(FixtureRoom), h \in HotelIds, c \in {100, 200} :
          CreateRoom(i, h, 0, 1, c)
    \/ \E i \in Ids(room) : DeleteRoom(i)
    \/ \E i \in Ids(hotel) : DeleteHotel(i)
    \/ \E arg \in Instances("Hotel.rooms") : EvalProperty("Hotel.rooms", arg)

SpecHotel == InitHotel /\ [][NextHotel]_vars

\* C24: for every stored Hotel H, H.rooms holds as many rows as there are
\* stored Rooms whose hotel is H, every row of H.rooms is a stored Room of
\* H, and every stored Room of H is in H.rooms.
C24_HotelRoomsAreItsRooms ==
    \A h \in Ids(hotel) :
        /\ Cardinality(Hotel_rooms(h))
              = Cardinality({i \in Ids(room) : RoomRow(i).hotel = h})
        /\ \A r \in Hotel_rooms(h) : r \in room /\ r.hotel = h
        /\ \A i \in Ids(room) : RoomRow(i).hotel = h => RoomRow(i) \in Hotel_rooms(h)

\* Witness of C24: rooms of cost 100 and 200 are stored in hotel 1 and a
\* third room in hotel 2; rooms of hotel 1 was read and gave the two.
C24_Witness ==
    /\ result.op = "Hotel.rooms"
    /\ result.arg = <<1>>
    /\ Cardinality(result.value) = 2
    /\ {r.cost : r \in result.value} = {100, 200}
    /\ result.value = Hotel_rooms(1)
    /\ Cardinality(room) = 3
    /\ Cardinality(Hotel_rooms(2)) = 1

\* C25: duration_in_days of a stored Room, read at any time, is its to_date
\* minus its from_date, positive, zero or negative, and reading it raises
\* nothing; and whatever the two dates, creating a Room in a stored Hotel
\* under an unused id succeeds.
C25_DurationIsDateDifference ==
    /\ \A r \in room :
          /\ Room_duration_in_days(r.id) = r.to_date - r.from_date
          /\ Evaluate("Room.duration_in_days", <<r.id>>)
                = Return(r.to_date - r.from_date)
    /\ \A i \in RoomIds \ Ids(room), h \in Ids(hotel), fd \in Dates, td \in Dates :
          ENABLED (/\ CreateRoom(i, h, fd, td, 100)
                   /\ result'.status = "ok"
                   /\ \E r \in room' : /\ r.id = i
                                       /\ r.from_date = fd
                                       /\ r.to_date = td)

\* Witness of C25: a Room whose to_date is two days before its from_date is
\* stored and its duration_in_days was read as -2.
C25_Witness ==
    /\ result.op = "Room.duration_in_days"
    /\ result.status = "ok"
    /\ result.value = -2
    /\ \E r \in room : /\ r.id = result.arg[1]
                       /\ r.from_date = 2
                       /\ r.to_date = 0

(***************************************************************************)
(* SpecIntegrity: from the empty store, rows of every model are created    *)
(* (referring to rows that are stored or not), deleted, and rooms are      *)
(* added to and removed from the plan.                                     *)
(***************************************************************************)
NextIntegrity ==
    \/ \E n \in {"Country1", "Country2"} : CreateCountry(n)
    \/ \E c \in {"Country1", "Country2"} : CreateCity("City1", c)
    \/ \E n \in {"Airport1", "Airport2"}, c \in {"Country1", "Country2"} :
          CreateAirport(n, c)
    \/ CreateHotel(1, "City1")
    \/ CreateSightseeing(1, "City1", 50)
    \/ CreateRoom(1, 1, 0, 1, 100)
    \/ \E dep \in {"Airport1", "Airport2"}, arr \in {"Airport1", "Airport2"} :
          CreateFlight("Flight1", dep, arr, 100, 10, 14)
    \/ CreatePlan("Plan1", 1)
    \/ CreateFlightPlan("Flight1", "Plan1", 1)
    \/ CreateSightseeingPlan(1, "Plan1", 1)
    \/ \E i \in Ids(room) : PlanRoomsAdd("Plan1", i)
    \/ \E i \in Ids(room) : PlanRoomsRemove("Plan1", i)
    \/ \E n \in country : DeleteCountry(n)
    \/ \E n \in CityNames : DeleteCity(n)
    \/ \E i \in Ids(sightseeing) : DeleteSightseeing(i)
    \/ \E i \in Ids(hotel) : DeleteHotel(i)
    \/ \E i \in Ids(room) : DeleteRoom(i)
    \/ \E n \in AirportNames : DeleteAirport(n)
    \/ \E n \in FlightNames : DeleteFlight(n)
    \/ \E n \in PlanNames : DeletePlan(n)
    \/ \E r \in BagToSet(flightplan) : DeleteFlightPlan(r)
    \/ \E r \in BagToSet(sightseeingplan) : DeleteSightseeingPlan(r)

SpecIntegrity == InitView /\ [][NextIntegrity]_vars

\* C27: in every state every foreign key of every stored row names a stored
\* row, and every plan-room link names a stored Plan and a stored Room.
C27_ReferentialIntegrity ==
    /\ \A c \in city : c.country \in country
    /\ \A h \in hotel : h.city \in {c.name : c \in city}
    /\ \A s \in sightseeing : s.city \in {c.name : c \in city}
    /\ \A r \in room : r.hotel \in {h.id : h \in hotel}
    /\ \A a \in airport : a.country \in country
    /\ \A f \in flight : /\ f.departure \in {a.name : a \in airport}
                         /\ f.arrival \in {a.name : a \in airport}
    /\ \A r \in BagToSet(flightplan) : /\ r.flight \in {f.name : f \in flight}
                                       /\ r.plan \in {p.name : p \in plan}
    /\ \A r \in BagToSet(sightseeingplan) :
          /\ r.sightseeing \in {x.id : x \in sightseeing}
          /\ r.plan \in {p.name : p \in plan}
    /\ \A l \in plan_rooms : /\ l.plan \in {p.name : p \in plan}
                             /\ l.room \in {r.id : r \in room}

\* Witness of C27: Country2 was deleted from a store that held a flight
\* from Airport1 to Airport2 linked to Plan1; Airport2, the flight and its
\* FlightPlan row are gone, and the city, hotel, room, sightseeing and
\* their links to Plan1 are still stored.
C27_Witness ==
    /\ result.op = "Country.delete"
    /\ result.arg = <<"Country2">>
    /\ country = {"Country1"}
    /\ airport = {[name |-> "Airport1", country |-> "Country1"]}
    /\ flight = {}
    /\ flightplan = EmptyBag
    /\ Names(plan) = {"Plan1"}
    /\ Ids(room) = {1}
    /\ plan_rooms = {[plan |-> "Plan1", room |-> 1]}
    /\ BagCardinality(sightseeingplan) = 1

\* C28: in every state, for every stored Country C and Plan P, P is among
\* C.plans exactly when C is among P.countries.
C28_PlansAndCountriesAreInverse ==
    \A c \in country : \A p \in plan :
        (p \in BagToSet(Country_plans(c))) <=> (c \in Plan_countries(p.name))

\* Witness of C28: Plan1 holds a flight from Country1 to Country2 and Plan2
\* a flight within Country2; Country1 has Plan1 only, Country2 has both and
\* Country3 has none.
C28_Witness ==
    /\ Plan_countries("Plan1") = {"Country1", "Country2"}
    /\ Plan_countries("Plan2") = {"Country2"}
    /\ {p.name : p \in BagToSet(Country_plans("Country1"))} = {"Plan1"}
    /\ {p.name : p \in BagToSet(Country_plans("Country2"))} = {"Plan1", "Plan2"}
    /\ Country_plans("Country3") = EmptyBag

\* Every flight linked to plan p arrives no earlier than it departs.
AllForward(p) ==
    \A f \in LinkedFlights(p) : f.departure_date_time <= f.arrival_date_time

\* C29: after every step that changes the flights or their links, a plan
\* that has flights, each arriving no earlier than it departs, has a
\* duration_in_days that is returned and is 0 or more; and when the step linked one more flight to a plan that had some,
\* all of them such flights, the duration_in_days of the plan is not less
\* than it was before the step.
C29_DurationNonNegativeAndGrowing ==
    [][/\ \A p \in Names(plan') :
            (/\ <<flight, flightplan>>' # <<flight, flightplan>>
             /\ LinkedFlights(p)' # {}
             /\ AllForward(p)') =>
                LET after == Plan_duration_in_days(p)'
                IN  after.status = "ok" /\ after.value >= 0
       /\ (result'.op = "FlightPlan.create" /\ result'.status = "ok") =>
            \A p \in Names(plan) :
                (/\ p = result'.arg[2]
                 /\ LinkedFlights(p) # {}
                 /\ AllForward(p)') =>
                    /\ LinkedFlights(p)' # LinkedFlights(p)
                    /\ Plan_duration_in_days(p).status = "ok"
                    /\ Plan_duration_in_days(p)'.value
                          >= Plan_duration_in_days(p).value
      ]_vars

\* Witness of C29: two flights of four hours each, a day apart, are linked
\* to Plan1, the second just now; the plan lasts one day where either
\* flight alone gives 0.
C29_Witness ==
    /\ result.op = "FlightPlan.create"
    /\ result.status = "ok"
    /\ result.arg[2] = "Plan1"
    /\ Cardinality(LinkedFlights("Plan1")) = 2
    /\ AllForward("Plan1")
    /\ \A f \in LinkedFlights("Plan1") : Elapsed(f) = 4
    /\ Plan_duration_in_days("Plan1") = Return(1)
====
